---- MODULE Spec2Model ----
(***************************************************************************)
(* Breach: the render tree (renderable.hpp/.cpp), the hierarchical visitor *)
(* (visitor.hpp/.tcc), the selection resolvers (selection.hpp/.tcc/.cpp)   *)
(* and the type-erased box Any (any.hpp/.tcc).                             *)
(***************************************************************************)
EXTENDS Integers, Sequences, FiniteSets, TLC

VARIABLES
    nodes,       \* the render tree: node id -> [type, name, payload, components]; node 1 is the root
    phase,       \* "build" | "render" | "visit" | "done" | "crashed" | "any" | "decode" |
                 \* "decoded" | "picked" | "length_error" | "dispatch" | "game"
    renderingMode,  \* the GLenum given to the top-level fullRender
    frames,      \* call stack of fullRender: <<[node, pc, it, mode]>>, innermost last;
                 \* it is the composite's loop position (0 before its render is called)
    nameStack,   \* the OpenGL name stack
    entryStack,  \* the name stack when the top-level fullRender was called
    rlog,        \* phases invoked so far: <<[phase, node, mode]>>
    drawn,       \* primitives submitted: <<[node, names, texture]>> (name stack and
                 \* texture state at draw time)
    glTexture,   \* OpenGL texture state: [bound (GL_TEXTURE_2D binding), enabled]
    glMatrix,    \* OpenGL matrix state: [mode (glMatrixMode), stacks (one per mode, top last)]
    visitor,     \* the visitor object given to accept
    vstack,      \* call stack of CompositeRenderable::accept: <<[node, it]>>
    ctl,         \* where the traversal stands: [op, node, val]
    vlog,        \* hooks invoked and accept returns so far: <<[hook, node, result]>>
    reads,       \* every read desiredName[currentLevel]: <<[level, size]>>
    any,         \* an Any box: its handle (NULL or [type, data])
    lastOp,      \* the last mutating operation on the box: [op, type, data]
    got,         \* the last query on a box: [q, type, result, isSet, after]
    any2,        \* a box copy-constructed from the box: [made, handle, of]
    buffer,      \* the selection buffer: [words (GLuint), entries (as OpenGL wrote them)]
    resultCount, \* the result count handed to the decoder (GLint)
    cursor,      \* the decoder's loop counter and read pointer: [i, ptr]
    hits,        \* SelectionUtil::hits: <<[zMin, zMax, nameHierarchy, entry]>>
    wordsRead,   \* the positions of the buffer read so far
    picked,      \* what getTopMostPayload / getTopMostTypedPayload returned
    crosshair,   \* a Crosshair: [breaches (vector<Breach*>, NULL or an address), count]
    lastCall,    \* the last call on the crosshair: [op, position, result, before]
    breaches,    \* the global vector<Breach>: <<[opened, wall, shotPoint]>>
    lastShot,    \* the last Breach::shootBreach: [index, wall, shotPoint, result, before]
    keysHeld,    \* the keys pressed and not yet released
    playerAdvance,  \* int playerAdvance[3], as a sequence
    targets,     \* main.cpp's targets[]: the hit flag of each (targets[i] is element i + 1)
    click        \* the last doSelection: [op, buffer, hits, before, written]

treeVars   == <<nodes>>
renderVars == <<renderingMode, frames, nameStack, entryStack, rlog, drawn, glTexture, glMatrix>>
visitVars  == <<visitor, vstack, ctl, vlog, reads>>
anyVars    == <<any, lastOp, got, any2>>
decodeVars == <<buffer, resultCount, cursor, hits, wordsRead, picked>>
gameVars   == <<crosshair, lastCall, breaches, lastShot, keysHeld, playerAdvance, targets, click>>
vars       == <<nodes, phase, renderingMode, frames, nameStack, entryStack, rlog, drawn, glTexture, glMatrix,
                visitor, vstack, ctl, vlog, reads, any, lastOp, got, any2,
                buffer, resultCount, cursor, hits, wordsRead, picked,
                crosshair, lastCall, breaches, lastShot, keysHeld, playerAdvance, targets, click>>

----------------------------------------------------------------------------
(* Bounds *)

\* most nodes in a render tree
MaxNodes == 3
\* longest target name path given to a selection visitor
MaxPathLen == 2

\* most callbacks registered on one visitor
MaxSpecializations == 2

\* most entries in a selection buffer
MaxHits == 3

\* most nodes in a scene of several groups
MaxSceneNodes == 4

\* largest small position given to a crosshair
MaxPosition == 2

\* largest value of the crosshair's counter from which addBreach is still called
MaxCount == 4
MaxTargets == 2

\* the names given to selectables (GLuint)
Names == {1, 2}

\* the null pointer; object addresses are positive
NULL == 0

\* Seq(S) restricted to length <= n
RECURSIVE SeqsUpTo(_, _)
SeqsUpTo(S, n) ==
    IF n = 0 THEN {<< >>}
    ELSE LET shorter == SeqsUpTo(S, n - 1)
         IN  shorter \cup {Append(s, x) : s \in {t \in shorter : Len(t) = n - 1}, x \in S}

----------------------------------------------------------------------------
(* Class hierarchy of the renderables *)

\* direct base classes, as declared
Bases(c) ==
    CASE c = "IRenderable"                   -> {}
      [] c = "CompositeRenderable"           -> {"IRenderable"}
      [] c = "LeafRenderable"                -> {"IRenderable"}
      [] c = "ConfigurerRenderable"          -> {"IRenderable"}
      [] c = "TransformerRenderable"         -> {"IRenderable"}
      [] c = "SelectableRenderable"          -> {"ConfigurerRenderable"}
      [] c = "SelectableCompositeRenderable" -> {"CompositeRenderable", "SelectableRenderable"}
      [] c = "SelectableLeafRenderable"      -> {"LeafRenderable", "SelectableRenderable"}
      [] c = "MatrixTransformerRenderable"   -> {"TransformerRenderable"}
      [] c = "Texturer"                      -> {"ConfigurerRenderable"}
      [] c = "TexturerCompositeRenderable"   -> {"CompositeRenderable", "Texturer"}
      [] c = "TesseledRectangle"             -> {"LeafRenderable", "MatrixTransformerRenderable"}
      [] c = "MatrixTransformerComposite"    -> {"CompositeRenderable", "MatrixTransformerRenderable"}
      [] c = "TargetRenderer"                -> {"SelectableRenderable"}
      [] c = "CrosshairRenderer"             -> {"LeafRenderable"}
      [] c = "WallRenderer"                  -> {"SelectableLeafRenderable"}
      [] c = "BreachRenderer"                -> {"SelectableLeafRenderable", "MatrixTransformerRenderable"}
      [] OTHER                               -> {}

\* dynamic_cast<target*>(object of most-derived class c) is non-null
RECURSIVE DynamicCast(_, _)
DynamicCast(c, target) ==
    \/ c = target
    \/ \E b \in Bases(c) : DynamicCast(b, target)

\* the concrete classes a tree is made of
CompositeTypes == {"CompositeRenderable", "SelectableCompositeRenderable"}
LeafTypes      == {"CrosshairRenderer", "WallRenderer", "BreachRenderer"}
NodeTypes      == CompositeTypes \cup LeafTypes

IsComposite(n)  == DynamicCast(nodes[n].type, "CompositeRenderable")
IsLeaf(n)       == DynamicCast(nodes[n].type, "LeafRenderable")
IsSelectable(n) == DynamicCast(nodes[n].type, "SelectableRenderable")
IsTexturer(n)   == DynamicCast(nodes[n].type, "Texturer")
\* target.isHit() as TargetRenderer's configure, render and deconfigure test it
TargetIsHitMutNever(n) == FALSE
TargetIsHit(n) == nodes[n].type = "TargetRenderer" /\ nodes[n].hit
IsMatrixTransformer(n) == DynamicCast(nodes[n].type, "MatrixTransformerRenderable")

----------------------------------------------------------------------------
(* Any: a reference to a value with the static type it was stored under *)

\* the classes of any_test.cpp
ValueTypes == {"BaseA", "BaseB", "DerivA", "DerivB"}
ValueBases(t) ==
    CASE t = "DerivA" -> {"BaseA"}
      [] t = "DerivB" -> {"BaseB"}
      [] OTHER        -> {}

\* Handle<T>(value): the type tag T and the referenced value
Handle(T, value) == [type |-> T, data |-> value]

\* Any::handle when it is the null pointer
NoHandle == [type |-> "NULL", data |-> NULL]

\* the values of any_test.cpp (ba, bb, da, db) by address, and their classes
Values == 1..4
ClassOf(value) == <<"BaseA", "BaseB", "DerivA", "DerivB">>[value]

\* the static types T under which a value can be handed to set<T>(T&)
StaticTypes(value) == {ClassOf(value)} \cup ValueBases(ClassOf(value))

\* Any::get<T>: the referent when the stored tag is exactly T
AnyGetMutSubtype(handle, T) ==
    IF handle = NoHandle THEN NULL
    ELSE IF T = handle.type \/ T \in ValueBases(handle.type) THEN handle.data
    ELSE NULL
AnyGet(handle, T) ==
    IF handle = NoHandle THEN NULL
    ELSE IF T = handle.type THEN handle.data
    ELSE NULL

\* Any::isSet
AnyIsSet(handle) == handle # NoHandle

\* Any::set<T>
AnySet(handle, T, value) == Handle(T, value)

\* Any::clear
AnyClearMutKeep(handle) == handle
AnyClear(handle) == NoHandle

\* Any::Any(Any&): duplicates the handle, not the value
AnyCopyMutShare(handle) == IF handle = NoHandle THEN NoHandle ELSE Handle("Any", handle.data)
AnyCopy(handle) == IF handle = NoHandle THEN NoHandle ELSE Handle(handle.type, handle.data)

----------------------------------------------------------------------------
(* The render tree *)

PayloadTypes == {"Wall", "Breach"}

\* Texture::NO_TEXTURE, the texture name 0, and the names of the textures loaded
NO_TEXTURE == 0
Textures == {NO_TEXTURE, 1, 2}

\* the texture state of a context in which nothing was enabled or bound
NoTexturing == [bound |-> NO_TEXTURE, enabled |-> FALSE]

\* MatrixTransformerRenderable::MatrixMode
MatrixModes == {"MODELVIEW", "PROJECTION", "TEXTURE"}

\* the transformation matrices given to the constructors, and the matrices on the
\* stacks: a matrix is the product of transformations it was multiplied by, in order
Transformations == {1, 2}
Identity == << >>

\* the matrix state of a fresh context: every stack holds one identity matrix
NoMatrices == [mode |-> "MODELVIEW", stacks |-> [md \in MatrixModes |-> <<Identity>>]]

\* the nodes the constructors can make; object k is the domain object made for node k
NodeOptions(k) ==
    {[type |-> "CompositeRenderable", name |-> 0, payload |-> NoHandle, components |-> << >>]}
    \cup {[type |-> "SelectableCompositeRenderable", name |-> nm, payload |-> pl, components |-> << >>] :
            nm \in Names, pl \in {NoHandle} \cup {Handle(T, k) : T \in PayloadTypes}}
    \cup {[type |-> "CrosshairRenderer", name |-> 0, payload |-> NoHandle, components |-> << >>]}
    \cup {[type |-> "WallRenderer", name |-> nm, payload |-> AnySet(NoHandle, "Wall", k), components |-> << >>] :
            nm \in Names}
    \cup {[type |-> "BreachRenderer", name |-> nm, payload |-> AnySet(NoHandle, "Breach", k), components |-> << >>] :
            nm \in Names}

\* SelectableRenderable::getName / getPayload (the payload is returned as a copy)
getName(n)    == nodes[n].name
getPayload(n) == AnyCopy(nodes[n].payload)

NodeIds == 1..Len(nodes)

\* parent of node n (0 for the root): the composite that lists it
Parent(n) ==
    IF \E p \in NodeIds : \E i \in 1..Len(nodes[p].components) : nodes[p].components[i] = n
    THEN CHOOSE p \in NodeIds : \E i \in 1..Len(nodes[p].components) : nodes[p].components[i] = n
    ELSE 0

\* the nodes from the root down to n
RECURSIVE PathTo(_)
PathTo(n) == IF n = 0 THEN << >> ELSE Append(PathTo(Parent(n)), n)

\* n is below a (a proper descendant)
IsBelow(n, a) == n # a /\ \E i \in 1..Len(PathTo(n)) : PathTo(n)[i] = a

\* the names of the selectable nodes among a sequence of nodes, in order
RECURSIVE SelectableNames(_)
SelectableNames(path) ==
    IF path = << >> THEN << >>
    ELSE LET n == path[Len(path)]
             up == SelectableNames(SubSeq(path, 1, Len(path) - 1))
         IN  IF IsSelectable(n) THEN Append(up, getName(n)) ELSE up

\* the name path of node n: the names of its selectable ancestors, then its own
NamePath(n) == SelectableNames(PathTo(n))

\* components.push_back(child) on composite p, in a tree of at most `most` nodes
AddComponentUpTo(p, child, most) ==
    /\ phase = "build"
    /\ Len(nodes) < most
    /\ IsComposite(p)
    /\ nodes' = Append([nodes EXCEPT ![p].components = Append(@, Len(nodes) + 1)], child)
    /\ UNCHANGED <<gameVars, decodeVars, phase, renderVars, visitVars, anyVars>>
AddComponent(p, child) == AddComponentUpTo(p, child, MaxNodes)

\* the scenes of the render passes: names matter, payloads do not
NamedOptions(k) ==
    {o \in NodeOptions(k) :
        /\ o.type # "BreachRenderer"
        /\ o.type = "SelectableCompositeRenderable" => o.payload = NoHandle}

\* the scenes of the plain visits: only the classes matter
PlainOptions(k) == {o \in NamedOptions(k) : o.name <= 1}

\* the scenes of the textured passes: groups with and without a texture, and leaves
TexturedOptions(k) ==
    {[type |-> "CompositeRenderable", name |-> 0, payload |-> NoHandle, components |-> << >>],
     [type |-> "CrosshairRenderer", name |-> 0, payload |-> NoHandle, components |-> << >>]}
    \cup {[type |-> "TexturerCompositeRenderable", name |-> 0, payload |-> NoHandle,
           components |-> << >>, texture |-> t] : t \in Textures}

\* the scenes of the transformed passes: transformer groups of any matrix mode,
\* plain groups and rectangles (MODELVIEW, renderable.cpp:322-338)
MatrixOptions(k) ==
    {[type |-> "CompositeRenderable", name |-> 0, payload |-> NoHandle, components |-> << >>]}
    \cup {[type |-> "TesseledRectangle", name |-> 0, payload |-> NoHandle, components |-> << >>,
           matrixMode |-> "MODELVIEW", transformation |-> t] : t \in {1}}
    \cup {[type |-> "MatrixTransformerComposite", name |-> 0, payload |-> NoHandle, components |-> << >>,
           matrixMode |-> md, transformation |-> t] : md \in MatrixModes, t \in Transformations}

\* the scenes of targets: groups and target renderers, no target hit yet
\* (Target::Target, targets.cpp:28-35)
TargetOptions(k) ==
    {[type |-> "CompositeRenderable", name |-> 0, payload |-> NoHandle, components |-> << >>]}
    \cup {[type |-> "SelectableCompositeRenderable", name |-> 1, payload |-> NoHandle, components |-> << >>]}
    \cup {[type |-> "TargetRenderer", name |-> nm, payload |-> NoHandle, components |-> << >>,
           hit |-> FALSE] : nm \in Names}

\* building the scene, one component at a time
BuildScene == \E p \in NodeIds : \E child \in NodeOptions(Len(nodes) + 1) : AddComponent(p, child)
BuildNamed == \E p \in NodeIds : \E child \in NamedOptions(Len(nodes) + 1) : AddComponent(p, child)
BuildPlain == \E p \in NodeIds : \E child \in PlainOptions(Len(nodes) + 1) : AddComponent(p, child)
BuildGroups ==
    \E p \in NodeIds : \E child \in NamedOptions(Len(nodes) + 1) :
        AddComponentUpTo(p, child, MaxSceneNodes)
BuildMatrices == \E p \in NodeIds : \E child \in MatrixOptions(Len(nodes) + 1) : AddComponent(p, child)
BuildTargets == \E p \in NodeIds : \E child \in TargetOptions(Len(nodes) + 1) : AddComponent(p, child)
BuildTextured == \E p \in NodeIds : \E child \in TexturedOptions(Len(nodes) + 1) : AddComponent(p, child)

----------------------------------------------------------------------------
(* Rendering: IRenderable::fullRender and the five phases *)

RenderingModes == {"GL_RENDER", "GL_SELECT", "GL_FEEDBACK"}

\* glMatrixMode, glPushMatrix, glMultMatrixf, glPopMatrix on the matrix state
glMatrixMode(gl, md) == [gl EXCEPT !.mode = md]
glPushMatrix(gl) ==
    LET st == gl.stacks[gl.mode] IN [gl EXCEPT !.stacks[gl.mode] = Append(st, st[Len(st)])]
glMultMatrixf(gl, t) ==
    LET st == gl.stacks[gl.mode] IN [gl EXCEPT !.stacks[gl.mode][Len(st)] = Append(@, t)]
glPopMatrix(gl) ==
    LET st == gl.stacks[gl.mode]
    IN  IF Len(st) > 1 THEN [gl EXCEPT !.stacks[gl.mode] = SubSeq(st, 1, Len(st) - 1)] ELSE gl

\* MatrixTransformerRenderable::loadTransform / unloadTransform; IRenderable's do nothing
LoadTransform(n, m, gl) ==
    IF IsMatrixTransformer(n)
    THEN glMultMatrixf(glPushMatrix(glMatrixMode(gl, nodes[n].matrixMode)), nodes[n].transformation)
    ELSE gl
UnloadTransformMutNoMode(n, m, gl) ==
    IF IsMatrixTransformer(n) THEN glPopMatrix(gl) ELSE gl
UnloadTransform(n, m, gl) ==
    IF IsMatrixTransformer(n) THEN glPopMatrix(glMatrixMode(gl, nodes[n].matrixMode)) ELSE gl

\* the order in which fullRender calls the phases
FullRenderPhasesMutLate == <<"configure", "render", "loadTransform", "unloadTransform", "deconfigure">>
FullRenderPhases == <<"configure", "loadTransform", "render", "unloadTransform", "deconfigure">>

\* the phase fullRender calls after phase pc ("return" after the last)
NextPhase(pc) ==
    LET i == CHOOSE j \in 1..Len(FullRenderPhases) : FullRenderPhases[j] = pc
    IN  IF i < Len(FullRenderPhases) THEN FullRenderPhases[i + 1] ELSE "return"

\* glPushName / glPopName on the name stack
glPushName(stack, name) == Append(stack, name)
glPopName(stack) == IF stack = << >> THEN stack ELSE SubSeq(stack, 1, Len(stack) - 1)

\* configure of node n: TargetRenderer::configure, SelectableRenderable::configure,
\* else IRenderable::configure
ConfigureMutNoModeTest(n, m, stack) ==
    IF IsSelectable(n) THEN glPushName(stack, getName(n)) ELSE stack
Configure(n, m, stack) ==
    IF TargetIsHit(n) THEN stack
    ELSE IF IsSelectable(n) /\ m = "GL_SELECT" THEN glPushName(stack, getName(n)) ELSE stack

\* deconfigure of node n: TargetRenderer::deconfigure, SelectableRenderable::deconfigure,
\* else IRenderable::deconfigure
DeconfigureMutNoPop(n, m, stack) == stack
Deconfigure(n, m, stack) ==
    IF TargetIsHit(n) THEN stack
    ELSE IF IsSelectable(n) /\ m = "GL_SELECT" THEN glPopName(stack) ELSE stack

\* Texturer::configure on node n (IRenderable::configure for the other classes)
TexturerConfigure(n, m, gl) ==
    IF ~IsTexturer(n) \/ m = "GL_SELECT" THEN gl
    ELSE IF nodes[n].texture # NO_TEXTURE THEN [bound |-> nodes[n].texture, enabled |-> TRUE]
    ELSE gl

\* Texturer::deconfigure on node n (IRenderable::deconfigure for the other classes)
TexturerDeconfigure(n, m, gl) ==
    IF ~IsTexturer(n) \/ m = "GL_SELECT" THEN gl
    ELSE [bound |-> NO_TEXTURE, enabled |-> FALSE]

\* the frame fullRender(m) starts with on node n
FullRenderMutOrder(n, m) == [node |-> n, pc |-> "loadTransform", it |-> 0, mode |-> m]
FullRender(n, m) == [node |-> n, pc |-> FullRenderPhases[1], it |-> 0, mode |-> m]

\* the mode CompositeRenderable::render hands to its components
ComponentModeMutRender(m) == "GL_RENDER"
ComponentMode(m) == m

\* the component the iterator of CompositeRenderable::render stands on
RenderComponentMutReverse(c, it) == nodes[c].components[Len(nodes[c].components) + 1 - it]
RenderComponent(c, it) == nodes[c].components[it]

Top == frames[Len(frames)]
Event(ph, n, m) == [phase |-> ph, node |-> n, mode |-> m]

\* the game calls scene.fullRender(mode), the name stack holding whatever it holds
StartRender ==
    /\ phase = "build"
    /\ \E m \in RenderingModes, st \in {<< >>, <<0>>} :
        /\ renderingMode' = m
        /\ nameStack' = st
        /\ entryStack' = st
        /\ frames' = <<FullRender(1, m)>>
    /\ phase' = "render"
    /\ rlog' = << >>
    /\ drawn' = << >>
    /\ glTexture' = NoTexturing
    /\ glMatrix' = NoMatrices
    /\ UNCHANGED <<gameVars, decodeVars, treeVars, visitVars, anyVars>>

\* fullRender's return to its caller
Advance(f) == [f EXCEPT !.pc = NextPhase(f.pc)]
Step(f) ==
    IF NextPhase(f.pc) = "return"
    THEN SubSeq(frames, 1, Len(frames) - 1)
    ELSE [frames EXCEPT ![Len(frames)] = Advance(f)]

DoConfigure ==
    /\ phase = "render" /\ frames # << >> /\ Top.pc = "configure"
    /\ nameStack' = Configure(Top.node, Top.mode, nameStack)
    /\ glTexture' = TexturerConfigure(Top.node, Top.mode, glTexture)
    /\ rlog' = Append(rlog, Event("configure", Top.node, Top.mode))
    /\ frames' = Step(Top)
    /\ UNCHANGED <<gameVars, decodeVars, phase, renderingMode, entryStack, drawn, glMatrix, treeVars, visitVars, anyVars>>

DoLoadTransform ==
    /\ phase = "render" /\ frames # << >> /\ Top.pc = "loadTransform"
    /\ glMatrix' = LoadTransform(Top.node, Top.mode, glMatrix)
    /\ rlog' = Append(rlog, Event("loadTransform", Top.node, Top.mode))
    /\ frames' = Step(Top)
    /\ UNCHANGED <<gameVars, decodeVars, phase, renderingMode, nameStack, entryStack, drawn, glTexture, treeVars, visitVars, anyVars>>

\* a leaf's render submits its primitives (a hit target's returns at once);
\* a composite's render starts its loop
DoRender ==
    /\ phase = "render" /\ frames # << >> /\ Top.pc = "render"
    /\ Top.it = 0
    /\ rlog' = Append(rlog, Event("render", Top.node, Top.mode))
    /\ IF IsComposite(Top.node)
       THEN /\ frames' = [frames EXCEPT ![Len(frames)].it = 1]
            /\ drawn' = drawn
       ELSE /\ frames' = Step(Top)
            /\ drawn' = IF TargetIsHit(Top.node) THEN drawn
                        ELSE Append(drawn, [node |-> Top.node, names |-> nameStack, texture |-> glTexture])
    /\ UNCHANGED <<gameVars, decodeVars, phase, renderingMode, nameStack, entryStack, glTexture, glMatrix, treeVars, visitVars, anyVars>>

\* CompositeRenderable::render: the loop over components
DoRenderLoop ==
    /\ phase = "render" /\ frames # << >> /\ Top.pc = "render" /\ IsComposite(Top.node)
    /\ Top.it >= 1
    /\ \/ /\ Top.it <= Len(nodes[Top.node].components)
          /\ frames' = Append([frames EXCEPT ![Len(frames)].it = @ + 1],
                              FullRender(RenderComponent(Top.node, Top.it), ComponentMode(Top.mode)))
       \/ /\ Top.it > Len(nodes[Top.node].components)
          /\ frames' = Step(Top)
    /\ UNCHANGED <<gameVars, decodeVars, phase, renderingMode, nameStack, entryStack, rlog, drawn, glTexture, glMatrix, treeVars, visitVars, anyVars>>

DoUnloadTransform ==
    /\ phase = "render" /\ frames # << >> /\ Top.pc = "unloadTransform"
    /\ glMatrix' = UnloadTransform(Top.node, Top.mode, glMatrix)
    /\ rlog' = Append(rlog, Event("unloadTransform", Top.node, Top.mode))
    /\ frames' = Step(Top)
    /\ UNCHANGED <<gameVars, decodeVars, phase, renderingMode, nameStack, entryStack, drawn, glTexture, treeVars, visitVars, anyVars>>

DoDeconfigure ==
    /\ phase = "render" /\ frames # << >> /\ Top.pc = "deconfigure"
    /\ nameStack' = Deconfigure(Top.node, Top.mode, nameStack)
    /\ glTexture' = TexturerDeconfigure(Top.node, Top.mode, glTexture)
    /\ rlog' = Append(rlog, Event("deconfigure", Top.node, Top.mode))
    /\ frames' = Step(Top)
    /\ UNCHANGED <<gameVars, decodeVars, phase, renderingMode, entryStack, drawn, glMatrix, treeVars, visitVars, anyVars>>

\* Target::setHit on the target of a target renderer, between two passes
SetHit ==
    /\ phase = "build"
    /\ \E n \in NodeIds :
        /\ nodes[n].type = "TargetRenderer"
        /\ ~nodes[n].hit
        /\ nodes' = [nodes EXCEPT ![n].hit = TRUE]
    /\ UNCHANGED <<gameVars, decodeVars, phase, renderVars, visitVars, anyVars>>

\* the game goes on after a pass: the scene may change and be rendered again
NextPass ==
    /\ phase = "done" /\ frames = << >>
    /\ phase' = "build"
    /\ UNCHANGED <<gameVars, decodeVars, treeVars, renderVars, visitVars, anyVars>>

\* the top-level fullRender has returned
RenderReturn ==
    /\ phase = "render" /\ frames = << >>
    /\ phase' = "done"
    /\ UNCHANGED <<gameVars, decodeVars, treeVars, renderVars, visitVars, anyVars>>

----------------------------------------------------------------------------
(* SpecializedHierachicalVisitor: resolving the callback by runtime type *)

\* exactMap.find(&typeid(*that)): map::insert keeps the first registration of a type
\* (index of the registration, 0 when there is none)
ExactFind(order, t) ==
    IF \E i \in 1..Len(order) : order[i] = t
    THEN CHOOSE i \in 1..Len(order) : order[i] = t /\ \A j \in 1..(i - 1) : order[j] # t
    ELSE 0

\* the loop over orderList: the first registration whose dynamic_cast succeeds
OrderedTrialMutLast(order, t) ==
    IF \E i \in 1..Len(order) : DynamicCast(t, order[i])
    THEN CHOOSE i \in 1..Len(order) :
            DynamicCast(t, order[i]) /\ \A j \in (i + 1)..Len(order) : ~DynamicCast(t, order[j])
    ELSE 0
OrderedTrial(order, t) ==
    IF \E i \in 1..Len(order) : DynamicCast(t, order[i])
    THEN CHOOSE i \in 1..Len(order) :
            DynamicCast(t, order[i]) /\ \A j \in 1..(i - 1) : ~DynamicCast(t, order[j])
    ELSE 0

\* SpecializedHierachicalVisitor::visit: the registration invoked for a non-null
\* node of runtime type t (0: none, so the fallback or the default answers)
ResolveMutNoExact(order, t) == OrderedTrial(order, t)
Resolve(order, t) ==
    IF ExactFind(order, t) # 0 THEN ExactFind(order, t) ELSE OrderedTrial(order, t)

----------------------------------------------------------------------------
(* TypedSelectionVisitor<TDesired> and SelectionVisitor *)

\* the constructors: found(false), selectedObject(NULL), currentLevel(0), defaults
\* (true, true, true), no fallback, and the three registrations
TypedSelectionVisitor(TDesired, desiredName) ==
    [kind |-> "TypedSelectionVisitor", TDesired |-> TDesired,
     found |-> FALSE, selectedObject |-> NULL, desiredName |-> desiredName, currentLevel |-> 0,
     selectedNode |-> 0]
\* (selectedNode is not a member: it records which node's payload was taken)
SelectionVisitor(desiredName) ==
    [kind |-> "SelectionVisitor", TDesired |-> "Any",
     found |-> FALSE, selectedObject |-> NoHandle, desiredName |-> desiredName, currentLevel |-> 0,
     selectedNode |-> 0]

IsSelectionVisitor(v) == v.kind \in {"TypedSelectionVisitor", "SelectionVisitor"}

\* the types registered by addSpecializationEnter / Leaf / Leave in the constructors
Specializations(hook) ==
    CASE hook = "visitEnter" -> <<"SelectableCompositeRenderable">>
      [] hook = "visitLeaf"  -> <<"SelectableLeafRenderable">>
      [] hook = "visitLeave" -> <<"SelectableCompositeRenderable">>

\* desiredName[currentLevel]: the element, or, read past the end, whatever is there
\* (any value, or a fault)
GarbageValues == Names \cup {0}
ReadDesiredName(v) ==
    IF v.currentLevel < Len(v.desiredName)
    THEN {[val |-> v.desiredName[v.currentLevel + 1], crash |-> FALSE]}
    ELSE {[val |-> g, crash |-> FALSE] : g \in GarbageValues} \cup {[val |-> 0, crash |-> TRUE]}

\* the payload test at the end of the path: get<TDesired>() != NULL (typed),
\* getPayload().isSet() (untyped)
PayloadMatches(v, n) ==
    IF v.kind = "TypedSelectionVisitor"
    THEN AnyGet(getPayload(n), v.TDesired) # NULL
    ELSE AnyIsSet(getPayload(n))

\* the address of the local variable `Any data = that->getPayload()` in a hook on node n
LocalCopy(n) == MaxNodes + 1 + n

\* what is stored in selectedObject: the typed pointer, or (untyped) the result of
\* Any::operator=<Any>(data), a handle tagged Any that refers to the local copy
SelectedObject(v, n) ==
    IF v.kind = "TypedSelectionVisitor"
    THEN AnyGet(getPayload(n), v.TDesired)
    ELSE AnySet(v.selectedObject, "Any", LocalCopy(n))

Outcome(v, r) == [vis |-> v, ret |-> r, crash |-> FALSE]

\* the value a matching selectable hook leaves in currentLevel
NextLevelMutStay(v) == v.currentLevel
NextLevel(v) == v.currentLevel + 1

\* visitSelectableEnter / visitSelectableLeaf after the read of desiredName[currentLevel] gave dn
SelectableMatch(v, n, dn, isLeaf) ==
    IF getName(n) = dn
    THEN LET lvl == NextLevel(v)
             adv == [v EXCEPT !.currentLevel = lvl]
         IN  IF lvl < Len(v.desiredName)
             THEN Outcome(adv, ~v.found)
             ELSE IF PayloadMatches(v, n)
                  THEN Outcome([adv EXCEPT !.found = TRUE,
                                           !.selectedObject = SelectedObject(v, n),
                                           !.selectedNode = n],
                               FALSE)
                  ELSE Outcome(adv, IF isLeaf THEN ~v.found ELSE FALSE)
    ELSE Outcome(v, IF isLeaf THEN ~v.found ELSE FALSE)

visitSelectableEnterMutLeaf(v, n) ==
    {IF rd.crash THEN [vis |-> v, ret |-> FALSE, crash |-> TRUE]
     ELSE SelectableMatch(v, n, rd.val, TRUE) : rd \in ReadDesiredName(v)}
visitSelectableEnter(v, n) ==
    {IF rd.crash THEN [vis |-> v, ret |-> FALSE, crash |-> TRUE]
     ELSE SelectableMatch(v, n, rd.val, FALSE) : rd \in ReadDesiredName(v)}

visitSelectableLeaf(v, n) ==
    {IF rd.crash THEN [vis |-> v, ret |-> FALSE, crash |-> TRUE]
     ELSE SelectableMatch(v, n, rd.val, TRUE) : rd \in ReadDesiredName(v)}

visitSelectableLeave(v, n) == {Outcome(v, ~v.found)}

\* the hook of a selection visitor on node n: visit() resolves the callback, the
\* default (true) answers when none applies
SelectionHook(v, hook, n) ==
    IF Resolve(Specializations(hook), nodes[n].type) = 0
    THEN {Outcome(v, TRUE)}
    ELSE CASE hook = "visitEnter" -> visitSelectableEnter(v, n)
           [] hook = "visitLeaf"  -> visitSelectableLeaf(v, n)
           [] hook = "visitLeave" -> visitSelectableLeave(v, n)

----------------------------------------------------------------------------
(* HierarchicalVisitor and accept *)

\* HierarchicalVisitor's own hooks: that != NULL
HierarchicalVisitor == [kind |-> "HierarchicalVisitor"]
\* a visitor of the caller's own, whose hooks answer as they please
UserVisitor == [kind |-> "UserVisitor"]

\* the outcomes of visitor v's hook on node n
HookMutNull(v, hook, n) == {Outcome(v, FALSE)}
Hook(v, hook, n) ==
    CASE IsSelectionVisitor(v)          -> SelectionHook(v, hook, n)
      [] v.kind = "HierarchicalVisitor" -> {Outcome(v, n # 0)}
      [] OTHER                          -> {Outcome(v, b) : b \in BOOLEAN}

\* the read of desiredName[currentLevel] a hook makes, if it makes one
HookReads(v, hook, n) ==
    IF /\ IsSelectionVisitor(v)
       /\ hook \in {"visitEnter", "visitLeaf"}
       /\ Resolve(Specializations(hook), nodes[n].type) # 0
    THEN <<[level |-> v.currentLevel, size |-> Len(v.desiredName)]>>
    ELSE << >>

Called(hook, n, r) == [hook |-> hook, node |-> n, result |-> r]

VTop == vstack[Len(vstack)]

\* the hook is invoked and answers (or faults)
Invoke(hook, n, o) ==
    /\ visitor' = o.vis
    /\ reads' = reads \o HookReads(visitor, hook, n)
    /\ phase' = IF o.crash THEN "crashed" ELSE phase

\* CompositeRenderable::accept up to the loop: visitEnter, and return false on false
AcceptCompositeMutDescend(o) == TRUE
AcceptComposite(o) == o.ret

EnterComposite ==
    /\ phase = "visit" /\ ctl.op = "call" /\ IsComposite(ctl.node)
    /\ \E o \in Hook(visitor, "visitEnter", ctl.node) :
        /\ Invoke("visitEnter", ctl.node, o)
        /\ IF o.crash
           THEN UNCHANGED <<gameVars, decodeVars, vstack, ctl, vlog>>
           ELSE IF AcceptComposite(o)
           THEN /\ vlog' = Append(vlog, Called("visitEnter", ctl.node, o.ret))
                /\ vstack' = Append(vstack, [node |-> ctl.node, it |-> 1])
                /\ ctl' = [op |-> "loop"]
           ELSE /\ vlog' = vlog \o <<Called("visitEnter", ctl.node, o.ret),
                                     Called("accept", ctl.node, FALSE)>>
                /\ vstack' = vstack
                /\ ctl' = [op |-> "ret", val |-> FALSE]
    /\ UNCHANGED <<gameVars, decodeVars, treeVars, renderVars, anyVars>>

\* LeafRenderable::accept: return visitor.visitLeaf(this)
AcceptLeaf ==
    /\ phase = "visit" /\ ctl.op = "call" /\ IsLeaf(ctl.node)
    /\ \E o \in Hook(visitor, "visitLeaf", ctl.node) :
        /\ Invoke("visitLeaf", ctl.node, o)
        /\ IF o.crash
           THEN UNCHANGED <<gameVars, decodeVars, ctl, vlog>>
           ELSE /\ vlog' = vlog \o <<Called("visitLeaf", ctl.node, o.ret),
                                     Called("accept", ctl.node, o.ret)>>
                /\ ctl' = [op |-> "ret", val |-> o.ret]
    /\ UNCHANGED <<gameVars, decodeVars, vstack, treeVars, renderVars, anyVars>>

\* the loop of CompositeRenderable::accept goes on: the last accept returned true
\* (or none was called yet) and a component is left
LoopContinuesMutNoBreak(c) == VTop.it <= Len(nodes[VTop.node].components)
LoopContinues(c) ==
    /\ c.op = "loop" \/ (c.op = "ret" /\ c.val)
    /\ VTop.it <= Len(nodes[VTop.node].components)

AcceptNext ==
    /\ phase = "visit" /\ ctl.op \in {"loop", "ret"} /\ vstack # << >>
    /\ LoopContinues(ctl)
    /\ ctl' = [op |-> "call", node |-> nodes[VTop.node].components[VTop.it]]
    /\ vstack' = [vstack EXCEPT ![Len(vstack)].it = @ + 1]
    /\ UNCHANGED <<gameVars, decodeVars, phase, visitor, vlog, reads, treeVars, renderVars, anyVars>>

\* what CompositeRenderable::accept returns after the loop, visitLeave having answered r
AcceptResultMutTrue(r) == TRUE
AcceptResult(r) == r

\* the loop has ended (break, or no component left): return visitor.visitLeave(this)
LeaveComposite ==
    /\ phase = "visit" /\ ctl.op \in {"loop", "ret"} /\ vstack # << >>
    /\ ~LoopContinues(ctl)
    /\ \E o \in Hook(visitor, "visitLeave", VTop.node) :
        /\ Invoke("visitLeave", VTop.node, o)
        /\ vlog' = vlog \o <<Called("visitLeave", VTop.node, o.ret),
                             Called("accept", VTop.node, AcceptResult(o.ret))>>
        /\ ctl' = [op |-> "ret", val |-> AcceptResult(o.ret)]
    /\ vstack' = SubSeq(vstack, 1, Len(vstack) - 1)
    /\ UNCHANGED <<gameVars, decodeVars, treeVars, renderVars, anyVars>>

\* the top-level accept has returned
AcceptReturn ==
    /\ phase = "visit" /\ ctl.op = "ret" /\ vstack = << >>
    /\ phase' = "done"
    /\ UNCHANGED <<gameVars, decodeVars, treeVars, renderVars, visitVars, anyVars>>

\* scene.accept(visitor) with a selection visitor built for a name path
StartSelection ==
    /\ phase = "build"
    /\ \E path \in SeqsUpTo(Names, MaxPathLen) :
        \/ \E T \in PayloadTypes : visitor' = TypedSelectionVisitor(T, path)
        \/ visitor' = SelectionVisitor(path)
    /\ phase' = "visit"
    /\ ctl' = [op |-> "call", node |-> 1]
    /\ vstack' = << >>
    /\ vlog' = << >>
    /\ reads' = << >>
    /\ UNCHANGED <<gameVars, decodeVars, treeVars, renderVars, anyVars>>

\* scene.accept(visitor) with a TypedSelectionVisitor<Wall> built for a name path
StartPick ==
    /\ phase = "build"
    /\ \E path \in SeqsUpTo(Names, MaxPathLen) : visitor' = TypedSelectionVisitor("Wall", path)
    /\ phase' = "visit"
    /\ ctl' = [op |-> "call", node |-> 1]
    /\ vstack' = << >>
    /\ vlog' = << >>
    /\ reads' = << >>
    /\ UNCHANGED <<gameVars, decodeVars, treeVars, renderVars, anyVars>>

\* scene.accept(visitor) with the plain visitor or one of the caller's own
StartVisit ==
    /\ phase = "build"
    /\ visitor' \in {HierarchicalVisitor, UserVisitor}
    /\ phase' = "visit"
    /\ ctl' = [op |-> "call", node |-> 1]
    /\ vstack' = << >>
    /\ vlog' = << >>
    /\ reads' = << >>
    /\ UNCHANGED <<gameVars, decodeVars, treeVars, renderVars, anyVars>>

----------------------------------------------------------------------------
(* SpecializedHierachicalVisitor, as a caller builds and uses it *)

Hooks == {"visitEnter", "visitLeaf", "visitLeave"}

\* the types callbacks are registered for
SpecializedTypes == {"LeafRenderable", "SelectableRenderable", "WallRenderer"}

\* the member fallback when it is the null pointer
NoFallback == [kind |-> "NULL"]

\* the constructor: the three defaults, fallback(NULL), nothing registered.
\* order[h] is the orderList of hook h; its exactMap is read off it by ExactFind
SpecializedHierachicalVisitor(defaultReturnEnter, defaultReturnLeaf, defaultReturnLeave) ==
    [kind |-> "SpecializedHierachicalVisitor",
     defaultReturn |-> [h \in Hooks |-> CASE h = "visitEnter" -> defaultReturnEnter
                                         [] h = "visitLeaf"  -> defaultReturnLeaf
                                         [] h = "visitLeave" -> defaultReturnLeave],
     fallback |-> NoFallback,
     order |-> [h \in Hooks |-> << >>]]

\* no hook was called on the visitor as it stands (ctl holds the last call made on it)
NoCall == [op |-> "idle"]

\* the number of callbacks registered so far
Registered(v) == Len(v.order["visitEnter"]) + Len(v.order["visitLeaf"]) + Len(v.order["visitLeave"])

\* addSpecializationEnter / Leaf / Leave <TSpecialized>(callback)
AddSpecialization ==
    /\ phase = "dispatch"
    /\ Registered(visitor) < MaxSpecializations
    /\ \E hook \in Hooks, TSpecialized \in SpecializedTypes :
        visitor' = [visitor EXCEPT !.order[hook] = Append(@, TSpecialized)]
    /\ ctl' = NoCall
    /\ UNCHANGED <<phase, vstack, vlog, reads, treeVars, renderVars, anyVars, gameVars, decodeVars>>

\* setFallbackVisitor(visitor)
SetFallbackVisitor ==
    /\ phase = "dispatch"
    /\ \E f \in {HierarchicalVisitor, UserVisitor} : visitor' = [visitor EXCEPT !.fallback = f]
    /\ ctl' = NoCall
    /\ UNCHANGED <<phase, vstack, vlog, reads, treeVars, renderVars, anyVars, gameVars, decodeVars>>

\* visit() when no callback was resolved: the fallback if one is set, else the default
UnresolvedMutNoFallback(v) == "default"
Unresolved(v) == IF v.fallback # NoFallback THEN "fallback" ELSE "default"

\* visit(): who answers for `that` (NULL or a node), and which registration if any
Dispatch(v, hook, that) ==
    LET idx == IF that = NULL THEN 0 ELSE Resolve(v.order[hook], nodes[that].type)
    IN  IF idx # 0
        THEN [by |-> IF ExactFind(v.order[hook], nodes[that].type) # 0 THEN "exact" ELSE "ordered",
              callback |-> idx]
        ELSE [by |-> Unresolved(v), callback |-> 0]

\* DynamicCastArgFunctor::run throws bad_cast: the argument is not null and is not a
\* TSpecialized
BadCast(TSpecialized, that) == that # NULL /\ ~DynamicCast(nodes[that].type, TSpecialized)

\* the registrations the ordered loop runs for a node of class t: up to the one that
\* answers, all of them when none does
Trials(order, t) ==
    IF OrderedTrial(order, t) # 0 THEN 1..OrderedTrial(order, t) ELSE 1..Len(order)

\* the loop runs each registration inside try { } catch (bad_cast&) { continue; }
CatchesBadCastMutNoTry == FALSE
CatchesBadCast == TRUE

\* a bad_cast leaves visit(): thrown by the callback of the exact match, which runs
\* outside the try block, or thrown in the loop and not caught
Escapes(v, hook, that) ==
    IF that = NULL THEN FALSE
    ELSE LET order == v.order[hook]
             t == nodes[that].type
         IN  IF ExactFind(order, t) # 0
             THEN BadCast(order[ExactFind(order, t)], that)
             ELSE \E k \in Trials(order, t) : BadCast(order[k], that) /\ ~CatchesBadCast

\* what the one who answers may answer: a registered callback as it pleases, the
\* fallback by its hook of the same kind, else the default of this hook
Answers(v, hook, that, by) ==
    CASE by \in {"exact", "ordered"} -> BOOLEAN
      [] by = "fallback"             -> {o.ret : o \in Hook(v.fallback, hook, that)}
      [] OTHER                       -> {v.defaultReturn[hook]}

\* what visitEnter / visitLeaf / visitLeave return, the one who answers having said r
VisitResultMutNegate(r) == ~r
VisitResult(r) == r

\* visitEnter(that) / visitLeaf(that) / visitLeave(that) on the visitor. (The hooks bind
\* the fallback's member function before visit() tests the pointer; with a null
\* fallback the reference is bound and never used.)
Visit ==
    /\ phase = "dispatch"
    /\ \E hook \in Hooks, that \in {NULL} \cup NodeIds :
        LET d == Dispatch(visitor, hook, that)
            thrown == Escapes(visitor, hook, that)
        IN  \E r \in Answers(visitor, hook, that, d.by) :
                ctl' = [op |-> "visited", hook |-> hook, node |-> that, by |-> d.by,
                        callback |-> d.callback, answer |-> r, thrown |-> thrown,
                        result |-> IF thrown THEN "bad_cast" ELSE VisitResult(r)]
    /\ UNCHANGED <<phase, visitor, vstack, vlog, reads, treeVars, renderVars, anyVars, gameVars, decodeVars>>

----------------------------------------------------------------------------
(* SelectionUtil: decoding the selection buffer *)

\* (float)x for a GLuint x: the nearest value with a 24-bit significand, ties to even
RECURSIVE Ulp(_)
Ulp(x) == IF x < 16777216 THEN 1 ELSE 2 * Ulp(x \div 2)
ToFloat(x) ==
    LET u == Ulp(x)
        q == x \div u
        r == x % u
    IN  IF 2 * r < u \/ (2 * r = u /\ q % 2 = 0) THEN q * u ELSE (q + 1) * u

\* ptr[k] / (float)0xffffffff, in units of 2^-32: (float)0xffffffff is 2^32 and the
\* division by it is exact
NormalizeMutNegate(raw) == 0 - ToFloat(raw)
Normalize(raw) == ToFloat(raw)

\* the raw depths of an entry as OpenGL writes them (minimum, maximum), and its names
HitDepths == {<<0, 16777216>>, <<16777216, 16777217>>, <<16777217, 1073741824>>,
              <<1073741824, 1073741824>>}
HitNames == {<< >>, <<1>>, <<2, 1>>}
BufferEntries == {[depths |-> d, names |-> nm] : d \in HitDepths, nm \in HitNames}

\* an entry in the layout of the buffer: name count, the two depths, the names
EntryWords(e) == <<Len(e.names), e.depths[1], e.depths[2]>> \o e.names

\* the buffer holding entries es: their words, then the part OpenGL did not write
RECURSIVE BufferWords(_)
BufferWords(es) ==
    IF es = << >> THEN <<0, 0, 0>> ELSE EntryWords(Head(es)) \o BufferWords(Tail(es))

\* the words of the buffer that entries es take
EntriesLen(es) == Len(BufferWords(es)) - 3

\* the body of the loop: the hit read at ptr (entry is not a member: it tells which
\* turn of the loop made the record)
ReadHitMutSwapDepths(words, ptr, i) ==
    [zMin |-> Normalize(words[ptr + 2]), zMax |-> Normalize(words[ptr + 1]),
     nameHierarchy |-> SubSeq(words, ptr + 3, ptr + 2 + words[ptr]), entry |-> i + 1]
ReadHit(words, ptr, i) ==
    [zMin |-> Normalize(words[ptr + 1]), zMax |-> Normalize(words[ptr + 2]),
     nameHierarchy |-> SubSeq(words, ptr + 3, ptr + 2 + words[ptr]), entry |-> i + 1]

\* where ptr stands after the entry: ptr += 3, ptr += nameCount
NextPtrMutNoNames(ptr, nameCount) == ptr + 3
NextPtr(ptr, nameCount) == ptr + 3 + nameCount

\* the loop goes on: resultCount > 0 and i < resultCount
DecodingMutInclusive(i, count) == i <= count
Decoding(i, count) == count > 0 /\ i < count

\* Hit::operator<
HitLess(a, b) == a.zMin < b.zMin

\* std::sort(hits.begin(), hits.end()): some arrangement of the same records that is
\* ascending by operator<; which one, among records that compare equal, is not specified
StdSortMutNoSort(h) == {h}
StdSort(h) ==
    LET n == Len(h)
        perms == {p \in [1..n -> 1..n] : \A i, j \in 1..n : i # j => p[i] # p[j]}
        sorted == {p \in perms : \A i, j \in 1..n : i < j => ~HitLess(h[p[j]], h[p[i]])}
    IN  {[k \in 1..n |-> h[p[k]]] : p \in sorted}

\* hits.reserve(resultCount) throws std::length_error: the GLint is converted to the
\* unsigned size_type, and a negative count becomes a size above max_size()
ReserveThrows(count) == count < 0

\* analyzeSelectionBuffer: hits.clear(); hits.reserve(resultCount) throwing; the
\* exception leaves the constructor and finishGlSelection
ReserveFails ==
    /\ phase = "decode" /\ cursor.i = 0
    /\ ReserveThrows(resultCount)
    /\ phase' = "length_error"
    /\ UNCHANGED <<gameVars, buffer, resultCount, cursor, hits, wordsRead, picked, treeVars, renderVars, visitVars, anyVars>>

\* analyzeSelectionBuffer: one turn of the loop
DecodeHit ==
    /\ phase = "decode"
    /\ Decoding(cursor.i, resultCount)
    /\ LET nameCount == buffer.words[cursor.ptr]
       IN  /\ hits' = Append(hits, ReadHit(buffer.words, cursor.ptr, cursor.i))
           /\ wordsRead' = wordsRead \cup (cursor.ptr .. (cursor.ptr + 2 + nameCount))
           /\ cursor' = [i |-> cursor.i + 1, ptr |-> NextPtr(cursor.ptr, nameCount)]
    /\ UNCHANGED <<gameVars, phase, buffer, resultCount, picked, treeVars, renderVars, visitVars, anyVars>>

\* analyzeSelectionBuffer: after the loop the hits are sorted; nothing more is done
\* for a result count of 0
FinishDecoding ==
    /\ phase = "decode"
    /\ ~ReserveThrows(resultCount)
    /\ ~Decoding(cursor.i, resultCount)
    /\ hits' \in (IF resultCount > 0 THEN StdSort(hits) ELSE {hits})
    /\ phase' = "decoded"
    /\ UNCHANGED <<gameVars, buffer, resultCount, cursor, wordsRead, picked, treeVars, renderVars, visitVars, anyVars>>

\* analyzeSelectionBuffer as a whole, from the turn i of its loop on: the hit lists it
\* may leave
RECURSIVE AnalyzeFrom(_, _, _, _, _)
AnalyzeFrom(count, words, ptr, i, acc) ==
    IF Decoding(i, count)
    THEN AnalyzeFrom(count, words, NextPtr(ptr, words[ptr]), i + 1,
                     Append(acc, ReadHit(words, ptr, i)))
    ELSE IF count > 0 THEN StdSort(acc) ELSE {acc}
analyzeSelectionBuffer(count, words) == AnalyzeFrom(count, words, 1, 0, << >>)

\* getTopMostTypedPayload<TDesired> / getTopMostPayload return at once when
\* hits.empty(): NULL, or Any()
NothingPickedMutSet(by) ==
    [by |-> by, pending |-> FALSE, object |-> 1, payload |-> Handle("Any", 1)]
NothingPicked(by) ==
    [by |-> by, pending |-> FALSE, object |-> NULL, payload |-> NoHandle]

\* getTopMostTypedPayload<TDesired>(scene) / getTopMostPayload(scene), up to the
\* call of scene.accept with a resolver for the name path of hits[0]
GetTopMost ==
    /\ phase = "decoded"
    /\ \E by \in {"getTopMostTypedPayload", "getTopMostPayload"} :
        IF hits = << >>
        THEN /\ picked' = NothingPicked(by)
             /\ phase' = "picked"
             /\ UNCHANGED visitVars
        ELSE /\ picked' = [by |-> by, pending |-> TRUE, object |-> NULL, payload |-> NoHandle]
             /\ phase' = "visit"
             /\ \/ /\ by = "getTopMostTypedPayload"
                   /\ \E T \in PayloadTypes :
                        visitor' = TypedSelectionVisitor(T, hits[1].nameHierarchy)
                \/ /\ by = "getTopMostPayload"
                   /\ visitor' = SelectionVisitor(hits[1].nameHierarchy)
             /\ ctl' = [op |-> "call", node |-> 1]
             /\ vstack' = << >>
             /\ vlog' = << >>
             /\ reads' = << >>
    /\ UNCHANGED <<gameVars, buffer, resultCount, cursor, hits, wordsRead, treeVars, renderVars, anyVars>>

\* getTopMostTypedPayload / getTopMostPayload after accept: the selected object when
\* one was found, else NULL, or Any().clear()
TopMostReturn ==
    /\ phase = "done" /\ picked.by # "none" /\ picked.pending
    /\ picked' = IF ~visitor.found THEN NothingPicked(picked.by)
                 ELSE IF picked.by = "getTopMostTypedPayload"
                 THEN [picked EXCEPT !.pending = FALSE, !.object = visitor.selectedObject]
                 ELSE [picked EXCEPT !.pending = FALSE, !.payload = AnyCopy(visitor.selectedObject)]
    /\ phase' = "picked"
    /\ UNCHANGED <<gameVars, buffer, resultCount, cursor, hits, wordsRead, treeVars, renderVars, visitVars, anyVars>>

----------------------------------------------------------------------------
(* Operations on an Any box *)

\* any.set(value) with value of static type T
Set ==
    /\ phase = "any"
    /\ \E value \in Values : \E T \in StaticTypes(value) :
        /\ any' = AnySet(any, T, value)
        /\ lastOp' = [op |-> "set", type |-> T, data |-> value]
    /\ UNCHANGED <<gameVars, decodeVars, phase, got, any2, treeVars, renderVars, visitVars>>

\* any = value: operator= calls set(value)
Assign ==
    /\ phase = "any"
    /\ \E value \in Values : \E T \in StaticTypes(value) :
        /\ any' = AnySet(any, T, value)
        /\ lastOp' = [op |-> "assign", type |-> T, data |-> value]
    /\ UNCHANGED <<gameVars, decodeVars, phase, got, any2, treeVars, renderVars, visitVars>>

\* any.clear()
Clear ==
    /\ phase = "any"
    /\ any' = AnyClear(any)
    /\ lastOp' = [op |-> "clear", type |-> "NULL", data |-> NULL]
    /\ UNCHANGED <<gameVars, decodeVars, phase, got, any2, treeVars, renderVars, visitVars>>

\* any.get<U>()
Get ==
    /\ phase = "any"
    /\ \E U \in ValueTypes :
        got' = [q |-> "get", type |-> U, result |-> AnyGet(any, U), isSet |-> FALSE, after |-> lastOp]
    /\ UNCHANGED <<gameVars, decodeVars, phase, any, lastOp, any2, treeVars, renderVars, visitVars>>

\* any.isSet()
IsSet ==
    /\ phase = "any"
    /\ got' = [q |-> "isSet", type |-> "NULL", result |-> NULL, isSet |-> AnyIsSet(any), after |-> lastOp]
    /\ UNCHANGED <<gameVars, decodeVars, phase, any, lastOp, any2, treeVars, renderVars, visitVars>>

\* Any any2 = any / Any any2(any): the copy constructor
Copy ==
    /\ phase = "any"
    /\ any2' = [made |-> TRUE, handle |-> AnyCopy(any), of |-> lastOp]
    /\ UNCHANGED <<gameVars, decodeVars, phase, any, lastOp, got, treeVars, renderVars, visitVars>>

\* any2.get<U>()
GetOfCopy ==
    /\ phase = "any" /\ any2.made
    /\ \E U \in ValueTypes :
        got' = [q |-> "copy.get", type |-> U, result |-> AnyGet(any2.handle, U), isSet |-> FALSE,
                after |-> any2.of]
    /\ UNCHANGED <<gameVars, decodeVars, phase, any, lastOp, any2, treeVars, renderVars, visitVars>>

\* any2.isSet()
IsSetOfCopy ==
    /\ phase = "any" /\ any2.made
    /\ got' = [q |-> "copy.isSet", type |-> "NULL", result |-> NULL, isSet |-> AnyIsSet(any2.handle),
               after |-> any2.of]
    /\ UNCHANGED <<gameVars, decodeVars, phase, any, lastOp, any2, treeVars, renderVars, visitVars>>

----------------------------------------------------------------------------
(* Crosshair: the breaches it holds, by position *)

\* the largest unsigned int, 2^32 - 1, written as the int of the same 32 bits
UINT_MAX == -1

\* the positions given to the calls (unsigned int)
Positions == (0..MaxPosition) \cup {UINT_MAX}

\* the addresses of the Breach objects handed to addBreach
BreachAddrs == {1, 2}

\* position >= breaches.size(): unsigned comparison, the sizes here being small
PositionBeyond(position, size) == position = UINT_MAX \/ position >= size

\* position + 1 in unsigned int arithmetic: modulo 2^32
PositionPlusOne(position) == IF position = UINT_MAX THEN 0 ELSE position + 1

\* vector::resize(n, NULL)
Resize(v, n) ==
    IF n <= Len(v) THEN SubSeq(v, 1, n) ELSE v \o [i \in 1..(n - Len(v)) |-> NULL]

\* Crosshair::Crosshair
NoCrosshair == [breaches |-> << >>, count |-> 0]

\* Crosshair::addBreach(breach, position): the states it may leave and what it returns;
\* the store breaches[position] outside the vector is undefined behaviour (a fault, or
\* a write that lands outside the elements)
addBreach(c, breach, position) ==
    LET resized == IF PositionBeyond(position, Len(c.breaches))
                   THEN Resize(c.breaches, PositionPlusOne(position))
                   ELSE c.breaches
        inside  == ~PositionBeyond(position, Len(resized))
        old     == IF inside THEN resized[position + 1] ELSE NULL
        count   == IF old = NULL THEN c.count + 1 ELSE c.count
    IN  IF inside
        THEN {[to |-> [breaches |-> [resized EXCEPT ![position + 1] = breach], count |-> count],
               result |-> old, crash |-> FALSE]}
        ELSE {[to |-> [breaches |-> resized, count |-> count], result |-> old, crash |-> f] :
                f \in BOOLEAN}

\* Crosshair::removeBreach(position)
removeBreach(c, position) ==
    IF PositionBeyond(position, Len(c.breaches))
    THEN [to |-> c, result |-> NULL]
    ELSE LET old == c.breaches[position + 1]
         IN  IF old # NULL
             THEN [to |-> [breaches |-> [c.breaches EXCEPT ![position + 1] = NULL],
                           count |-> c.count - 1],
                   result |-> old]
             ELSE [to |-> c, result |-> old]

\* Crosshair::getBreachCount / getBreachAt
getBreachCount(c) == c.count
getBreachAt(c, position) ==
    IF PositionBeyond(position, Len(c.breaches)) THEN NULL ELSE c.breaches[position + 1]

NoCall2 == [op |-> "none"]
CrosshairCall(op, position, result) ==
    [op |-> op, position |-> position, result |-> result, before |-> crosshair]

AddBreach ==
    /\ phase = "game"
    /\ crosshair.count < MaxCount
    /\ \E breach \in BreachAddrs, position \in Positions :
        \E o \in addBreach(crosshair, breach, position) :
            /\ crosshair' = o.to
            /\ lastCall' = CrosshairCall("addBreach", position, o.result)
            /\ phase' = IF o.crash THEN "crashed" ELSE phase
    /\ UNCHANGED <<breaches, lastShot, keysHeld, playerAdvance, targets, click,
                   decodeVars, treeVars, renderVars, visitVars, anyVars>>

RemoveBreach ==
    /\ phase = "game"
    /\ \E position \in Positions :
        LET o == removeBreach(crosshair, position)
        IN  /\ crosshair' = o.to
            /\ lastCall' = CrosshairCall("removeBreach", position, o.result)
    /\ UNCHANGED <<phase, breaches, lastShot, keysHeld, playerAdvance, targets, click,
                   decodeVars, treeVars, renderVars, visitVars, anyVars>>

GetBreachAt ==
    /\ phase = "game"
    /\ \E position \in Positions :
        lastCall' = CrosshairCall("getBreachAt", position, getBreachAt(crosshair, position))
    /\ UNCHANGED <<phase, crosshair, breaches, lastShot, keysHeld, playerAdvance, targets, click,
                   decodeVars, treeVars, renderVars, visitVars, anyVars>>

----------------------------------------------------------------------------
(* Breach::shootBreach: opening a breach on a wall *)

\* Floats are written in tenths (wall coordinates, norms) and their products in the
\* matching unit; NaN is the float that compares false with everything.
NaN == -1000
FLess(a, b)    == a # NaN /\ b # NaN /\ a < b
FGreater(a, b) == a # NaN /\ b # NaN /\ a > b
FAdd(a, b) == IF a = NaN \/ b = NaN THEN NaN ELSE a + b
FSub(a, b) == IF a = NaN \/ b = NaN THEN NaN ELSE a - b
FMul(a, b) == IF a = NaN \/ b = NaN THEN NaN ELSE a * b

\* Breach::DEFAULT_BREACH_WIDTH / HEIGHT (0.8), in tenths
DEFAULT_BREACH_WIDTH == 8
DEFAULT_BREACH_HEIGHT == 8

\* 1, the far edge of a wall in its own coordinates, in tenths
One == 10

\* the walls: the norms of their axes A and B, in tenths (a wall of 2 x 2, and a strip
\* of 2 x 0.2, narrower than a breach)
Walls == {1, 2}
aNorm(wall) == 20
bNorm(wall) == IF wall = 1 THEN 20 ELSE 2

\* DEFAULT_BREACH_WIDTH / 2 / norm, in tenths of the wall's unit
HalfExtent(size, norm) == (size * One) \div (2 * norm)

\* the coordinates a shot point is made of
ShotCoords == {0, 10, NaN}
ShotPoints == ShotCoords \X ShotCoords

\* Breach::getAdjustedShotPoint
getAdjustedShotPoint(wall, shotPoint) ==
    LET hw == HalfExtent(DEFAULT_BREACH_WIDTH, aNorm(wall))
        hh == HalfExtent(DEFAULT_BREACH_HEIGHT, bNorm(wall))
        x0 == shotPoint[1]
        y0 == shotPoint[2]
        x1 == IF FLess(FSub(x0, hw), 0) THEN hw ELSE x0
        x2 == IF FGreater(FAdd(x1, hw), One) THEN One - hw ELSE x1
        y1 == IF FLess(FSub(y0, hh), 0) THEN hh ELSE y0
        y2 == IF FGreater(FAdd(y1, hh), One) THEN One - hh ELSE y1
    IN  IF FLess(x2, 0) \/ FLess(y2, 0) THEN shotPoint ELSE <<x2, y2>>

\* minDist = (W*W + H*H) / 2 * 0.9, in the unit of the squared products
MinDist ==
    ((DEFAULT_BREACH_WIDTH * DEFAULT_BREACH_WIDTH + DEFAULT_BREACH_HEIGHT * DEFAULT_BREACH_HEIGHT)
        * 100 * 9) \div (2 * 10)

\* dist: the sum of the squares of the scaled coordinate differences
Dist(wall, p, q) ==
    LET dx == FMul(aNorm(wall), FSub(p[1], q[1]))
        dy == FMul(bNorm(wall), FSub(p[2], q[2]))
    IN  FAdd(FMul(dx, dx), FMul(dy, dy))

\* the test that rejects a shot
TooClose(dist) == FLess(dist, MinDist)

\* Breach::Breach(color): not opened, no wall
ClosedBreach == [opened |-> FALSE, wall |-> NULL, shotPoint |-> <<0, 0>>]

\* Breach::shootBreach(index, wall, shotPoint) on the vector bs: the vector it leaves
\* and what it returns
shootBreach(bs, index, wall, shotPoint) ==
    IF index >= Len(bs) THEN [to |-> bs, result |-> FALSE]
    ELSE LET adjustedShotPoint == getAdjustedShotPoint(wall, shotPoint)
         IN  IF \E i \in 0..(Len(bs) - 1) :
                    /\ i # index
                    /\ wall = bs[i + 1].wall
                    /\ TooClose(Dist(wall, adjustedShotPoint, bs[i + 1].shotPoint))
             THEN [to |-> bs, result |-> FALSE]
             ELSE [to |-> [bs EXCEPT ![index + 1] =
                             [opened |-> TRUE, wall |-> wall, shotPoint |-> adjustedShotPoint]],
                   result |-> TRUE]

\* initBreaches: two breaches, not opened
InitBreaches ==
    /\ phase = "game" /\ breaches = << >>
    /\ breaches' = <<ClosedBreach, ClosedBreach>>
    /\ lastShot' = NoCall2
    /\ UNCHANGED <<phase, crosshair, lastCall, keysHeld, playerAdvance, targets, click,
                   decodeVars, treeVars, renderVars, visitVars, anyVars>>

ShootBreach ==
    /\ phase = "game"
    /\ \E index \in 0..2, wall \in Walls, shotPoint \in ShotPoints :
        LET o == shootBreach(breaches, index, wall, shotPoint)
        IN  /\ breaches' = o.to
            /\ lastShot' = [op |-> "shootBreach", index |-> index, wall |-> wall,
                            shotPoint |-> shotPoint, result |-> o.result, before |-> breaches]
    /\ UNCHANGED <<phase, crosshair, lastCall, keysHeld, playerAdvance, targets, click,
                   decodeVars, treeVars, renderVars, visitVars, anyVars>>

----------------------------------------------------------------------------
(* main.cpp: the movement keys *)

\* the keys of the handlers, and "x" for any other key
Keys == {"z", "q", "s", "d", "a", "e", "x"}

\* the macros MIN and MAX
MIN(a, b) == IF a <= b THEN a ELSE b
MAX(a, b) == IF a >= b THEN a ELSE b

\* keyboard(key, x, y): playerAdvance after the press (axis i is element i + 1)
keyboard(key, advance) ==
    CASE key = "z" -> [advance EXCEPT ![1] = MIN(1, @ + 1)]
      [] key = "q" -> [advance EXCEPT ![2] = MAX(-1, @ - 1)]
      [] key = "s" -> [advance EXCEPT ![1] = MAX(-1, @ - 1)]
      [] key = "d" -> [advance EXCEPT ![2] = MIN(1, @ + 1)]
      [] key = "a" -> [advance EXCEPT ![3] = MIN(1, @ + 1)]
      [] key = "e" -> [advance EXCEPT ![3] = MAX(-1, @ - 1)]
      [] OTHER     -> advance

\* keyboardUp(key, x, y): playerAdvance after the release
keyboardUpMutNothing(key, advance) == advance
keyboardUp(key, advance) ==
    CASE key = "z" -> [advance EXCEPT ![1] = MAX(-1, @ - 1)]
      [] key = "q" -> [advance EXCEPT ![2] = MIN(1, @ + 1)]
      [] key = "s" -> [advance EXCEPT ![1] = MIN(1, @ + 1)]
      [] key = "d" -> [advance EXCEPT ![2] = MAX(-1, @ - 1)]
      [] key = "a" -> [advance EXCEPT ![3] = MAX(-1, @ - 1)]
      [] key = "e" -> [advance EXCEPT ![3] = MIN(1, @ + 1)]
      [] OTHER     -> advance

\* a key goes down: key repeat being ignored (glutIgnoreKeyRepeat(1)), only a key
\* that is up
Keyboard ==
    /\ phase = "game"
    /\ \E key \in Keys \ keysHeld :
        /\ keysHeld' = keysHeld \cup {key}
        /\ playerAdvance' = keyboard(key, playerAdvance)
    /\ UNCHANGED <<phase, crosshair, lastCall, breaches, lastShot, targets, click,
                   decodeVars, treeVars, renderVars, visitVars, anyVars>>

\* a key that is down goes up
KeyboardUp ==
    /\ phase = "game"
    /\ \E key \in keysHeld :
        /\ keysHeld' = keysHeld \ {key}
        /\ playerAdvance' = keyboardUp(key, playerAdvance)
    /\ UNCHANGED <<phase, crosshair, lastCall, breaches, lastShot, targets, click,
                   decodeVars, treeVars, renderVars, visitVars, anyVars>>

----------------------------------------------------------------------------
(* main.cpp: the click *)

\* the number of targets, and the targets of the program: none hit
target_count == MaxTargets
NoTargetHit == [i \in 1..target_count |-> FALSE]

\* the names under which draw_scene draws for selection, in drawing order: the wall
\* with the breach and the other walls under name 0, target i under name i + 1
DrawOrder == <<0, 0>> \o [i \in 1..target_count |-> i]

\* minimum depths of the hit records; Miss for what the click does not touch
Depths == {1, 2, 3}
Miss == 0

\* what one click touches: a depth or Miss for each entry of DrawOrder, a target
\* already hit being skipped by draw_scene
Clicks(ts) ==
    {c \in [1..Len(DrawOrder) -> Depths \cup {Miss}] :
        \A p \in 1..Len(DrawOrder) :
            (DrawOrder[p] # 0 /\ ts[DrawOrder[p]]) => c[p] = Miss}

\* the selection buffer after glRenderMode(GL_RENDER): for each entry touched, in
\* drawing order, the four words <<1, zmin, zmax, name>> (the name stack holds one
\* name: glPushName(0), then glLoadName)
RECURSIVE HitRecords(_, _)
HitRecords(c, p) ==
    IF p > Len(DrawOrder) THEN << >>
    ELSE (IF c[p] = Miss THEN << >> ELSE <<1, c[p], c[p], DrawOrder[p]>>)
         \o HitRecords(c, p + 1)

\* buffer[i] of the C array
Word(buf, i) == buf[i + 1]

\* the loop of doSelection from `loop` on: the name and the depth retained
RECURSIVE Closest(_, _, _, _, _)
Closest(buf, nhits, loop, choose, depth) ==
    IF loop >= nhits THEN [choose |-> choose, depth |-> depth]
    ELSE IF Word(buf, loop * 4 + 1) < depth
         THEN Closest(buf, nhits, loop + 1, Word(buf, loop * 4 + 3), Word(buf, loop * 4 + 1))
         ELSE Closest(buf, nhits, loop + 1, choose, depth)

\* doSelection after the selection rendering: the outcomes [to, written, crash],
\* `written` the set of indices of `targets` written. targets[choose] with choose
\* outside the array is a write outside the object: the flags of the targets stay
\* and the program goes on or stops
doSelection(ts, buf, nhits) ==
    IF nhits > 0
    THEN LET choose == Closest(buf, nhits, 1, Word(buf, 3), Word(buf, 1)).choose - 1
         IN  IF choose \in 0..(target_count - 1)
             THEN {[to |-> [ts EXCEPT ![choose + 1] = TRUE], written |-> {choose},
                    crash |-> FALSE]}
             ELSE {[to |-> ts, written |-> {choose}, crash |-> f] : f \in BOOLEAN}
    ELSE {[to |-> ts, written |-> {}, crash |-> FALSE]}

\* a left click
DoSelection ==
    /\ phase = "game"
    /\ \E c \in Clicks(targets) :
        LET buf == HitRecords(c, 1)
            nhits == Len(buf) \div 4
        IN  \E o \in doSelection(targets, buf, nhits) :
                /\ targets' = o.to
                /\ click' = [op |-> "doSelection", buffer |-> buf, hits |-> nhits,
                             before |-> targets, written |-> o.written]
                /\ phase' = IF o.crash THEN "crashed" ELSE phase
    /\ UNCHANGED <<crosshair, lastCall, breaches, lastShot, keysHeld, playerAdvance,
                   decodeVars, treeVars, renderVars, visitVars, anyVars>>

----------------------------------------------------------------------------
(* Specifications *)

\* no copy of the box was made
NoBox == [made |-> FALSE]

NoVisitor == [kind |-> "none"]
NoCtl     == [op |-> "idle"]
NoOp      == [op |-> "none", type |-> "NULL", data |-> NULL]
NoQuery   == [q |-> "none"]
NoCursor  == [i |-> 0, ptr |-> 0]
NoPick    == [by |-> "none"]
NoBuffer  == [words |-> << >>, entries |-> << >>]

\* the game state at start-up
InitGame ==
    /\ crosshair = NoCrosshair
    /\ lastCall = NoCall2
    /\ breaches = << >>
    /\ lastShot = NoCall2
    /\ keysHeld = {}
    /\ playerAdvance = <<0, 0, 0>>
    /\ targets = NoTargetHit
    /\ click = NoCall2

\* no tree, no visitor, no box, no selection buffer
Idle ==
    /\ nodes = << >>
    /\ renderingMode = "GL_RENDER"
    /\ frames = << >>
    /\ nameStack = << >>
    /\ entryStack = << >>
    /\ rlog = << >>
    /\ drawn = << >>
    /\ glTexture = NoTexturing
    /\ glMatrix = NoMatrices
    /\ visitor = NoVisitor
    /\ vstack = << >>
    /\ ctl = NoCtl
    /\ vlog = << >>
    /\ reads = << >>
    /\ any = NoHandle
    /\ lastOp = NoOp
    /\ got = NoQuery
    /\ any2 = NoBox
    /\ buffer = NoBuffer
    /\ resultCount = 0
    /\ cursor = NoCursor
    /\ hits = << >>
    /\ wordsRead = {}
    /\ picked = NoPick

\* the game at start-up, no scene built
InitIdleGame == Idle /\ phase = "game" /\ InitGame

NextBreach ==
    \/ InitBreaches
    \/ ShootBreach

\* the two breaches of the game and the shots at them
SpecBreach == InitIdleGame /\ [][NextBreach]_vars

NextClick ==
    \/ DoSelection

\* left clicks on the scene
SpecClick == InitIdleGame /\ [][NextClick]_vars

NextKeys ==
    \/ Keyboard
    \/ KeyboardUp

\* key presses and releases, alternating for each key
SpecKeys == InitIdleGame /\ [][NextKeys]_vars

NextCrosshair ==
    \/ AddBreach
    \/ RemoveBreach
    \/ GetBreachAt

\* a crosshair and the calls on it, in any order
SpecCrosshair == InitIdleGame /\ [][NextCrosshair]_vars

\* a default-constructed Any, no tree
InitAny ==
    /\ nodes = << >>
    /\ phase = "any"
    /\ renderingMode = "GL_RENDER"
    /\ frames = << >>
    /\ nameStack = << >>
    /\ entryStack = << >>
    /\ rlog = << >>
    /\ drawn = << >>
    /\ glTexture = NoTexturing
    /\ glMatrix = NoMatrices
    /\ visitor = NoVisitor
    /\ vstack = << >>
    /\ ctl = NoCtl
    /\ vlog = << >>
    /\ reads = << >>
    /\ any = NoHandle
    /\ lastOp = NoOp
    /\ got = NoQuery
    /\ any2 = NoBox
    /\ buffer = NoBuffer
    /\ resultCount = 0
    /\ cursor = NoCursor
    /\ hits = << >>
    /\ wordsRead = {}
    /\ picked = NoPick
    /\ InitGame

NextAny ==
    \/ Set
    \/ Assign
    \/ Clear
    \/ Get
    \/ IsSet
    \/ Copy
    \/ GetOfCopy
    \/ IsSetOfCopy

\* a box and the operations on it
SpecAny == InitAny /\ [][NextAny]_vars

\* a scene made of its root, nothing rendered or visited yet
InitTree(roots) ==
    /\ nodes \in {<<r>> : r \in roots}
    /\ phase = "build"
    /\ renderingMode = "GL_RENDER"
    /\ frames = << >>
    /\ nameStack = << >>
    /\ entryStack = << >>
    /\ rlog = << >>
    /\ drawn = << >>
    /\ glTexture = NoTexturing
    /\ glMatrix = NoMatrices
    /\ visitor = NoVisitor
    /\ vstack = << >>
    /\ ctl = NoCtl
    /\ vlog = << >>
    /\ reads = << >>
    /\ any = NoHandle
    /\ lastOp = NoOp
    /\ got = NoQuery
    /\ any2 = NoBox
    /\ buffer = NoBuffer
    /\ resultCount = 0
    /\ cursor = NoCursor
    /\ hits = << >>
    /\ wordsRead = {}
    /\ picked = NoPick
    /\ InitGame

NextRender ==
    \/ BuildNamed
    \/ StartRender
    \/ DoConfigure
    \/ DoLoadTransform
    \/ DoRender
    \/ DoRenderLoop
    \/ DoUnloadTransform
    \/ DoDeconfigure
    \/ RenderReturn

\* building a tree, then one render pass over it
SpecRender == InitTree(NamedOptions(1)) /\ [][NextRender]_vars

NextPick ==
    \/ BuildNamed
    \/ StartPick
    \/ EnterComposite
    \/ AcceptLeaf
    \/ AcceptNext
    \/ LeaveComposite
    \/ AcceptReturn

\* building a tree of groups and walls, then resolving a name path to a wall
SpecPick == InitTree(NamedOptions(1)) /\ [][NextPick]_vars

NextGroups ==
    \/ BuildGroups
    \/ StartPick
    \/ EnterComposite
    \/ AcceptLeaf
    \/ AcceptNext
    \/ LeaveComposite
    \/ AcceptReturn

\* the same over scenes of several groups
SpecGroups == InitTree(NamedOptions(1)) /\ [][NextGroups]_vars

NextTexture ==
    \/ BuildTextured
    \/ StartRender
    \/ DoConfigure
    \/ DoLoadTransform
    \/ DoRender
    \/ DoRenderLoop
    \/ DoUnloadTransform
    \/ DoDeconfigure
    \/ RenderReturn

\* building a tree of textured groups, then one render pass over it
SpecTexture == InitTree(TexturedOptions(1)) /\ [][NextTexture]_vars

NextTarget ==
    \/ BuildTargets
    \/ SetHit
    \/ StartRender
    \/ DoConfigure
    \/ DoLoadTransform
    \/ DoRender
    \/ DoRenderLoop
    \/ DoUnloadTransform
    \/ DoDeconfigure
    \/ RenderReturn
    \/ NextPass

\* a scene of targets, some of them hit between the passes over it
SpecTarget == InitTree(TargetOptions(1)) /\ [][NextTarget]_vars

NextMatrix ==
    \/ BuildMatrices
    \/ StartRender
    \/ DoConfigure
    \/ DoLoadTransform
    \/ DoRender
    \/ DoRenderLoop
    \/ DoUnloadTransform
    \/ DoDeconfigure
    \/ RenderReturn

\* building a tree of matrix transformers, then one render pass over it
SpecMatrix == InitTree(MatrixOptions(1)) /\ [][NextMatrix]_vars

NextSelection ==
    \/ BuildScene
    \/ StartSelection
    \/ EnterComposite
    \/ AcceptLeaf
    \/ AcceptNext
    \/ LeaveComposite
    \/ AcceptReturn

\* building a tree, then resolving a name path in it
SpecSelection == InitTree(NodeOptions(1)) /\ [][NextSelection]_vars

NextVisit ==
    \/ BuildPlain
    \/ StartVisit
    \/ EnterComposite
    \/ AcceptLeaf
    \/ AcceptNext
    \/ LeaveComposite
    \/ AcceptReturn

\* building a tree, then visiting it
SpecVisit == InitTree(PlainOptions(1)) /\ [][NextVisit]_vars

\* the selectable composites and the selectable leaves the constructors can make
GroupOptions(k) == {o \in NodeOptions(k) : o.type = "SelectableCompositeRenderable"}
LeafOptions(k)  == {o \in NodeOptions(k) : o.type \in {"WallRenderer", "BreachRenderer"}}

\* a selectable leaf is added to the group
BuildLeaves == \E child \in LeafOptions(Len(nodes) + 1) : AddComponent(1, child)

\* group.accept(visitor) with a typed resolver for a path of two names, the second
\* one a name of the model or a name (0) that no selectable carries
StartTwoLevel ==
    /\ phase = "build"
    /\ \E path \in [1..2 -> Names \cup {0}] : \E T \in PayloadTypes :
        visitor' = TypedSelectionVisitor(T, path)
    /\ phase' = "visit"
    /\ ctl' = [op |-> "call", node |-> 1]
    /\ vstack' = << >>
    /\ vlog' = << >>
    /\ reads' = << >>
    /\ UNCHANGED <<gameVars, decodeVars, treeVars, renderVars, anyVars>>

NextTwoLevel ==
    \/ BuildLeaves
    \/ StartTwoLevel
    \/ EnterComposite
    \/ AcceptLeaf
    \/ AcceptNext
    \/ LeaveComposite
    \/ AcceptReturn

\* a selectable group of selectable leaves, then a typed pick by a two-name path
SpecTwoLevel == InitTree(GroupOptions(1)) /\ [][NextTwoLevel]_vars

\* one node of each concrete class, for a visitor to be handed
DispatchNodes ==
    <<[type |-> "CompositeRenderable", name |-> 0, payload |-> NoHandle, components |-> << >>],
      [type |-> "CrosshairRenderer", name |-> 0, payload |-> NoHandle, components |-> << >>],
      [type |-> "WallRenderer", name |-> 1, payload |-> AnySet(NoHandle, "Wall", 3), components |-> << >>],
      [type |-> "BreachRenderer", name |-> 2, payload |-> AnySet(NoHandle, "Breach", 4), components |-> << >>]>>

\* a freshly constructed SpecializedHierachicalVisitor, with any defaults
InitDispatch ==
    /\ nodes = DispatchNodes
    /\ phase = "dispatch"
    /\ renderingMode = "GL_RENDER"
    /\ frames = << >>
    /\ nameStack = << >>
    /\ entryStack = << >>
    /\ rlog = << >>
    /\ drawn = << >>
    /\ glTexture = NoTexturing
    /\ glMatrix = NoMatrices
    /\ visitor \in {SpecializedHierachicalVisitor(e, l, v) : e \in BOOLEAN, l \in BOOLEAN, v \in BOOLEAN}
    /\ vstack = << >>
    /\ ctl = NoCtl
    /\ vlog = << >>
    /\ reads = << >>
    /\ any = NoHandle
    /\ lastOp = NoOp
    /\ got = NoQuery
    /\ any2 = NoBox
    /\ buffer = NoBuffer
    /\ resultCount = 0
    /\ cursor = NoCursor
    /\ hits = << >>
    /\ wordsRead = {}
    /\ picked = NoPick
    /\ InitGame

NextDispatch ==
    \/ AddSpecialization
    \/ SetFallbackVisitor
    \/ Visit

\* registering callbacks, setting a fallback and calling the hooks, in any order
SpecDispatch == InitDispatch /\ [][NextDispatch]_vars

\* a SelectionUtil under construction: analyzeSelectionBuffer is entered with a result
\* count and a buffer (what it held before may still be there when the count is not
\* the number of its entries); the scene is one wall
InitDecode ==
    /\ nodes = <<[type |-> "WallRenderer", name |-> 1, payload |-> AnySet(NoHandle, "Wall", 1),
                  components |-> << >>]>>
    /\ phase = "decode"
    /\ renderingMode = "GL_RENDER"
    /\ frames = << >>
    /\ nameStack = << >>
    /\ entryStack = << >>
    /\ rlog = << >>
    /\ drawn = << >>
    /\ glTexture = NoTexturing
    /\ glMatrix = NoMatrices
    /\ visitor = NoVisitor
    /\ vstack = << >>
    /\ ctl = NoCtl
    /\ vlog = << >>
    /\ reads = << >>
    /\ any = NoHandle
    /\ lastOp = NoOp
    /\ got = NoQuery
    /\ any2 = NoBox
    /\ \E es \in SeqsUpTo(BufferEntries, MaxHits) :
        /\ buffer = [words |-> BufferWords(es), entries |-> es]
        /\ resultCount \in {-1, 0, Len(es)}
    /\ cursor = [i |-> 0, ptr |-> 1]
    /\ hits = << >>
    /\ wordsRead = {}
    /\ picked = NoPick
    /\ InitGame

NextDecode ==
    \/ ReserveFails
    \/ DecodeHit
    \/ FinishDecoding
    \/ GetTopMost
    \/ AcceptLeaf
    \/ AcceptReturn
    \/ TopMostReturn

\* decoding a buffer, then asking for the top-most payload
SpecDecode == InitDecode /\ [][NextDecode]_vars

----------------------------------------------------------------------------
(* Claims *)

\* selectable names are unique among the components of each composite
UniqueSiblingNames ==
    \A p \in NodeIds : \A i, j \in 1..Len(nodes[p].components) :
        LET a == nodes[p].components[i]
            b == nodes[p].components[j]
        IN  (i # j /\ IsSelectable(a) /\ IsSelectable(b)) => getName(a) # getName(b)

\* a typed resolver has run to the end
TypedDone == phase = "done" /\ visitor.kind = "TypedSelectionVisitor"

\* every read desiredName[currentLevel] made so far was inside the vector
InBounds == \A i \in 1..Len(reads) : reads[i].level < reads[i].size

\* C1 (pick round trip): in a tree whose selectable names are unique among siblings,
\* TypedSelectionVisitor<T> run with the name path of a selectable leaf L whose
\* payload was set with type T ends found, the selected object being L's referent.
PickRoundTrip ==
    \A L \in NodeIds :
        (/\ TypedDone
         /\ UniqueSiblingNames
         /\ IsLeaf(L) /\ IsSelectable(L)
         /\ nodes[L].payload.type = visitor.TDesired
         /\ visitor.desiredName = NamePath(L))
        => (visitor.found /\ visitor.selectedObject = nodes[L].payload.data)

\* C2 (resolver soundness): a typed traversal that ends found took the payload of a
\* node whose full name path is the target path, and one for a path no node has ends
\* not found with a null selected object. Stated for the trees whose selectable names
\* are unique among siblings and the traversals all of whose reads of the path are in
\* bounds: its failure needs neither a name clash nor a stray read.
ResolverSound ==
    (TypedDone /\ InBounds /\ UniqueSiblingNames) =>
        /\ visitor.found => NamePath(visitor.selectedNode) = visitor.desiredName
        /\ (\A n \in NodeIds : ~(IsSelectable(n) /\ NamePath(n) = visitor.desiredName))
            => (~visitor.found /\ visitor.selectedObject = NULL)

\* C3 (no out-of-bounds path access): every read desiredName[currentLevel] happens
\* with currentLevel < desiredName.size().
NoOutOfBoundsRead == InBounds

\* C4 (exact-type retrieval): get<U>() gives the address handed to the most recent
\* set/assignment exactly when no clear followed it and U is the type used there,
\* null otherwise; isSet() tells whether the last operation was a set/assignment.
ExactTypeRetrieval ==
    LET stored == got.after.op \in {"set", "assign"}
    IN  /\ got.q = "get" =>
            got.result = (IF stored /\ got.type = got.after.type THEN got.after.data ELSE NULL)
        /\ got.q = "isSet" => (got.isSet <=> stored)

\* C4 witness: a value stored as DerivA, asked for as its base BaseA: null
ExactTypeRetrievalWitness ==
    /\ got.q = "get" /\ got.type = "BaseA" /\ got.result = NULL
    /\ got.after.op = "assign" /\ got.after.type = "DerivA"

IsPrefix(s, t) == Len(s) <= Len(t) /\ SubSeq(t, 1, Len(s)) = s

\* the phases invoked on node n so far, in order
PhasesOf(n) ==
    LET OfNode(e) == e.node = n
        es == SelectSeq(rlog, OfNode)
    IN  [i \in 1..Len(es) |-> es[i].phase]

\* fullRender(n) was called and has returned
Rendered(n) ==
    /\ PhasesOf(n) # << >>
    /\ \A i \in 1..Len(frames) : frames[i].node # n

\* C5 (five-phase protocol): fullRender invokes on its node configure, loadTransform,
\* render, unloadTransform, deconfigure, each once, in this order, all with the
\* rendering mode it was given, whatever the mode.
FivePhaseProtocol ==
    LET five == <<"configure", "loadTransform", "render", "unloadTransform", "deconfigure">>
    IN  phase \in {"render", "done"} =>
            /\ \A i \in 1..Len(rlog) : rlog[i].mode = renderingMode
            /\ \A n \in NodeIds :
                /\ IsPrefix(PhasesOf(n), five)
                /\ Rendered(n) => PhasesOf(n) = five
            /\ phase = "done" => Rendered(1)

\* C5 witness: a pass in feedback mode over a tree of three nodes has returned
FivePhaseProtocolWitness ==
    phase = "done" /\ renderingMode = "GL_FEEDBACK" /\ Len(nodes) >= 3 /\ Len(rlog) >= 15

\* position of the first event of the log on a node of set S (0: none), of the last
FirstEvent(S) ==
    IF \E i \in 1..Len(rlog) : rlog[i].node \in S
    THEN CHOOSE i \in 1..Len(rlog) : rlog[i].node \in S /\ \A j \in 1..(i - 1) : rlog[j].node \notin S
    ELSE 0
LastEvent(S) ==
    IF \E i \in 1..Len(rlog) : rlog[i].node \in S
    THEN CHOOSE i \in 1..Len(rlog) : rlog[i].node \in S /\ \A j \in (i + 1)..Len(rlog) : rlog[j].node \notin S
    ELSE 0

\* node n and the nodes below it
Subtree(n) == {m \in NodeIds : m = n \/ IsBelow(m, n)}

\* C6 (composite render order): render of a composite drives the five phases of every
\* component exactly once, in list order, never stopping early, and no phase of a
\* component (or of a node below it) starts before the deconfigure of the component
\* before it.
CompositeRenderOrder ==
    LET five == <<"configure", "loadTransform", "render", "unloadTransform", "deconfigure">>
    IN  phase \in {"render", "done"} =>
        \A c \in NodeIds :
            LET ch == nodes[c].components
                OfChild(e) == \E k \in 1..Len(ch) : ch[k] = e.node
                es == SelectSeq(rlog, OfChild)
                expected == [k \in 1..(5 * Len(ch)) |->
                                [node |-> ch[((k - 1) \div 5) + 1], phase |-> five[((k - 1) % 5) + 1]]]
                seen == [k \in 1..Len(es) |-> [node |-> es[k].node, phase |-> es[k].phase]]
            IN  /\ IsPrefix(seen, expected)
                /\ Rendered(c) => seen = expected
                /\ \A i, j \in 1..Len(ch) :
                    (i < j /\ FirstEvent(Subtree(ch[j])) # 0) =>
                        /\ LastEvent(Subtree(ch[i])) < FirstEvent(Subtree(ch[j]))
                        /\ rlog[LastEvent(Subtree(ch[i]))] = Event("deconfigure", ch[i], renderingMode)

\* C6 witness: a composite with two components has been rendered
CompositeRenderOrderWitness ==
    /\ phase = "done"
    /\ \E c \in NodeIds : Len(nodes[c].components) >= 2 /\ Rendered(c)

\* the names of the selectable nodes that are configured and not yet deconfigured
ActiveNames ==
    LET Configured(f) == f.pc # "configure" /\ IsSelectable(f.node)
        fs == SelectSeq(frames, Configured)
    IN  [i \in 1..Len(fs) |-> nodes[fs[i].node].name]

\* C7 (name-stack balance): in a selection pass configure of a selectable pushes its
\* own name and deconfigure pops one name, in any other mode neither touches the
\* stack; after fullRender the stack is what it was before and it never goes below
\* its depth at entry.
NameStackBalance ==
    phase \in {"render", "done"} =>
        /\ IsPrefix(entryStack, nameStack)
        /\ renderingMode = "GL_SELECT" => nameStack = entryStack \o ActiveNames
        /\ renderingMode # "GL_SELECT" => nameStack = entryStack
        /\ phase = "done" => nameStack = entryStack

\* C7 witness: a selection pass over nested selectables has returned, the stack
\* having held a name at entry
NameStackBalanceWitness ==
    /\ phase = "done" /\ renderingMode = "GL_SELECT" /\ entryStack = <<0>>
    /\ \E i \in 1..Len(drawn) : Len(drawn[i].names) >= 3

\* C8 (name path at draw time): in a selection pass, when a leaf's render runs, the
\* names above the depth at entry are the names of the selectable nodes on the path
\* from the root to the leaf, root first.
NamePathAtDraw ==
    (phase \in {"render", "done"} /\ renderingMode = "GL_SELECT") =>
        \A i \in 1..Len(drawn) : drawn[i].names = entryStack \o NamePath(drawn[i].node)

\* C8 witness: a selectable leaf drawn below a non-selectable composite that is
\* below a selectable one
NamePathAtDrawWitness ==
    /\ renderingMode = "GL_SELECT"
    /\ \E i \in 1..Len(drawn) :
        /\ Len(PathTo(drawn[i].node)) = 3
        /\ Len(drawn[i].names) = Len(entryStack) + 2

\* the positions in the log of hook `hook` on node n
Calls(hook, n) == {i \in 1..Len(vlog) : vlog[i].hook = hook /\ vlog[i].node = n}

\* C9 (visitor early exit): when visitEnter answers false for a composite, accept on
\* it returns false, no hook fires for any node below it and visitLeave is never
\* called for it.
VisitorEarlyExit ==
    phase \in {"visit", "done"} =>
        \A i \in 1..Len(vlog) :
            (vlog[i].hook = "visitEnter" /\ ~vlog[i].result) =>
                LET c == vlog[i].node
                IN  /\ i < Len(vlog) /\ vlog[i + 1] = Called("accept", c, FALSE)
                    /\ \A j \in 1..Len(vlog) : ~IsBelow(vlog[j].node, c)
                    /\ Calls("visitLeave", c) = {}
                    /\ Cardinality(Calls("accept", c)) = 1

\* C9 witness: a traversal has ended in which visitEnter answered false for a
\* composite that has components and is not the root
VisitorEarlyExitWitness ==
    /\ phase = "done"
    /\ \E i \in 2..Len(vlog) :
        /\ vlog[i].hook = "visitEnter" /\ ~vlog[i].result
        /\ nodes[vlog[i].node].components # << >>

\* C10 (accept protocol): after visitEnter answered true, accept is called on the
\* components in insertion order up to the first one whose accept returns false;
\* then visitLeave is called on the composite exactly once, also after such a stop,
\* and its answer is what accept returns. A leaf's accept calls visitLeaf exactly once
\* and returns its answer.
AcceptProtocol ==
    phase \in {"visit", "done"} =>
        /\ \A i \in 1..Len(vlog) :
            (vlog[i].hook = "visitEnter" /\ vlog[i].result) =>
                LET c == vlog[i].node
                    ch == nodes[c].components
                    Starts(e) == /\ e.hook \in {"visitEnter", "visitLeaf"}
                                 /\ \E k \in 1..Len(ch) : ch[k] = e.node
                    ss == SelectSeq(vlog, Starts)
                    started == [k \in 1..Len(ss) |-> ss[k].node]
                    Ret(n) == vlog[CHOOSE j \in Calls("accept", n) : TRUE]
                    stopped == /\ started # << >>
                               /\ Calls("accept", started[Len(started)]) # {}
                               /\ ~Ret(started[Len(started)]).result
                IN  /\ IsPrefix(started, ch)
                    /\ \A k \in 1..(Len(started) - 1) :
                        /\ Cardinality(Calls("accept", ch[k])) = 1
                        /\ Ret(ch[k]).result
                        /\ \A a \in Calls("accept", ch[k]) :
                            \A b \in Calls("visitEnter", ch[k + 1]) \cup Calls("visitLeaf", ch[k + 1]) : a < b
                    /\ Cardinality(Calls("visitLeave", c)) <= 1
                    /\ \A l \in Calls("visitLeave", c) :
                        /\ l < Len(vlog) /\ vlog[l + 1] = Called("accept", c, vlog[l].result)
                        /\ \A j \in 1..Len(vlog) : IsBelow(vlog[j].node, c) => j < l
                        /\ stopped \/ started = ch
                    /\ Calls("accept", c) # {} => Cardinality(Calls("visitLeave", c)) = 1
                    /\ phase = "done" => Cardinality(Calls("accept", c)) = 1
        /\ \A n \in NodeIds : IsLeaf(n) =>
            /\ Cardinality(Calls("visitLeaf", n)) <= 1
            /\ Cardinality(Calls("accept", n)) = Cardinality(Calls("visitLeaf", n))
            /\ \A l \in Calls("visitLeaf", n) :
                l < Len(vlog) /\ vlog[l + 1] = Called("accept", n, vlog[l].result)

\* C10 witness: a traversal has ended in which the first of two components returned
\* false and visitLeave of their composite answered true
AcceptProtocolWitness ==
    /\ phase = "done"
    /\ \E c \in NodeIds :
        /\ Len(nodes[c].components) = 2
        /\ \E i \in Calls("accept", nodes[c].components[1]) : ~vlog[i].result
        /\ \E l \in Calls("visitLeave", c) : vlog[l].result

\* a hook was called on the visitor with a node (not the null pointer)
VisitedNode == phase = "dispatch" /\ ctl.op = "visited" /\ ctl.node # NULL

\* the registrations of the hook called whose type is `t`, or is a downcast target of `t`
ExactFor(t) == {i \in 1..Len(visitor.order[ctl.hook]) : visitor.order[ctl.hook][i] = t}
CompatibleFor(t) == {i \in 1..Len(visitor.order[ctl.hook]) : DynamicCast(t, visitor.order[ctl.hook][i])}

\* C11 (exact match wins): for each hook, when the runtime type R of the node is a
\* registered type, the callback invoked is one registered for R, also when a callback
\* for a base of R was registered before it, and the hook returns its answer.
ExactMatchWins ==
    VisitedNode =>
        LET R == nodes[ctl.node].type
        IN  ExactFor(R) # {} =>
                /\ ctl.by = "exact"
                /\ ctl.callback \in ExactFor(R)
                /\ ctl.result = ctl.answer

\* C11 witness: on each hook in turn, a WallRenderer visited with LeafRenderable
\* registered before WallRenderer; here on visitLeaf, the second callback answering
ExactMatchWinsWitness ==
    /\ VisitedNode /\ ctl.hook = "visitLeaf"
    /\ nodes[ctl.node].type = "WallRenderer"
    /\ visitor.order["visitLeaf"] = <<"LeafRenderable", "WallRenderer">>
    /\ ctl.callback = 2

\* C12 (ordered trial): when no callback is registered for the exact runtime type, the
\* callback invoked is the earliest registered one whose type is a downcast target of
\* the node, later ones that would match too are not invoked, and the hook returns
\* its answer.
OrderedTrialFirst ==
    VisitedNode =>
        LET R == nodes[ctl.node].type
        IN  (ExactFor(R) = {} /\ CompatibleFor(R) # {}) =>
                /\ ctl.by = "ordered"
                /\ ctl.callback \in CompatibleFor(R)
                /\ \A j \in CompatibleFor(R) : ctl.callback <= j
                /\ ctl.result = ctl.answer

\* C12 witness: a BreachRenderer visited with two registrations that both match
OrderedTrialFirstWitness ==
    /\ VisitedNode /\ ctl.hook = "visitEnter"
    /\ nodes[ctl.node].type = "BreachRenderer"
    /\ visitor.order["visitEnter"] = <<"SelectableRenderable", "LeafRenderable">>
    /\ ctl.callback = 1 /\ ~ctl.result

\* C13 (unresolved dispatch): for the null pointer, or a node no registered type is
\* compatible with, no registered callback is invoked; the hook returns what the
\* fallback's hook of the same kind answers when a fallback is set, else the default
\* given to the constructor for this kind of hook.
UnresolvedDispatch ==
    (phase = "dispatch" /\ ctl.op = "visited") =>
        ((ctl.node = NULL \/ CompatibleFor(nodes[ctl.node].type) = {}) =>
            /\ ctl.callback = 0
            /\ visitor.fallback # NoFallback =>
                    /\ ctl.by = "fallback"
                    /\ ctl.result = ctl.answer
                    /\ visitor.fallback = HierarchicalVisitor => ctl.result = (ctl.node # NULL)
            /\ visitor.fallback = NoFallback =>
                    /\ ctl.by = "default"
                    /\ ctl.result = visitor.defaultReturn[ctl.hook])

\* C13 witness: the null pointer handed to visitLeaf of a visitor with a callback
\* registered for it, no fallback, and a leaf default unlike the two others
UnresolvedDispatchWitness ==
    /\ phase = "dispatch" /\ ctl.op = "visited"
    /\ ctl.node = NULL /\ ctl.hook = "visitLeaf"
    /\ visitor.order["visitLeaf"] # << >>
    /\ visitor.fallback = NoFallback
    /\ visitor.defaultReturn = [h \in Hooks |-> h # "visitLeaf"]
    /\ ctl.result = FALSE

\* analyzeSelectionBuffer has returned
Decoded == cursor # NoCursor /\ phase # "decode"

\* the count handed to the decoder is the number of entries of the buffer
CountsEntries == cursor # NoCursor /\ resultCount = Len(buffer.entries)

\* a hit record as its user sees it
Content(h) == [zMin |-> h.zMin, zMax |-> h.zMax, nameHierarchy |-> h.nameHierarchy]

\* C14 (decoder layout): decoding n entries with result count n gives n hits, one per
\* entry, each with the names of its entry in buffer order and the depths made of its
\* two raw depths; the cursor moves by 3 + nameCount per entry and exactly the words
\* of the n entries are read.
DecoderLayout ==
    CountsEntries =>
        /\ cursor.i <= resultCount
        /\ cursor.ptr = EntriesLen(SubSeq(buffer.entries, 1, cursor.i)) + 1
        /\ wordsRead = 1..(cursor.ptr - 1)
        /\ Decoded =>
            /\ Len(hits) = resultCount
            /\ {hits[k].entry : k \in 1..Len(hits)} = 1..resultCount
            /\ wordsRead = 1..EntriesLen(buffer.entries)
        /\ \A k \in 1..Len(hits) :
            LET e == buffer.entries[hits[k].entry]
            IN  /\ hits[k].nameHierarchy = e.names
                /\ hits[k].zMin = Normalize(e.depths[1])
                /\ hits[k].zMax = Normalize(e.depths[2])

\* C14 witness: three entries with no name, two names and one name are decoded
DecoderLayoutWitness ==
    /\ Decoded /\ CountsEntries /\ Len(hits) = 3
    /\ Len(buffer.entries[1].names) = 0
    /\ Len(buffer.entries[2].names) = 2
    /\ Len(buffer.entries[3].names) = 1

\* C15 (nearest first): after decoding, depthMin never decreases along the hit list,
\* and the first hit has the least depthMin of all entries decoded.
NearestFirst ==
    Decoded =>
        /\ \A i, j \in 1..Len(hits) : i < j => hits[i].zMin <= hits[j].zMin
        /\ (CountsEntries /\ hits # << >>) =>
            \A e \in 1..Len(buffer.entries) : hits[1].zMin <= Normalize(buffer.entries[e].depths[1])

\* C15 witness: three entries in descending order of depth come out in reverse
NearestFirstWitness ==
    /\ Decoded /\ Len(hits) = 3
    /\ hits[1].entry = 3 /\ hits[2].entry = 2 /\ hits[3].entry = 1
    /\ hits[1].zMin < hits[2].zMin /\ hits[2].zMin < hits[3].zMin

\* C16 (stable ordering): two entries with equal depthMin appear in the hit list in
\* the order they have in the buffer (stated for the pairs one can tell apart).
StableOrdering ==
    (Decoded /\ CountsEntries) =>
        \A i, j \in 1..Len(hits) :
            (i < j /\ hits[i].zMin = hits[j].zMin /\ Content(hits[i]) # Content(hits[j]))
                => hits[i].entry < hits[j].entry

\* C17 (zero hits): with a result count of 0 no word of the buffer is read, no hit
\* record is made, and getTopMostPayload / getTopMostTypedPayload report nothing
\* selected without visiting the scene.
ZeroHits ==
    (cursor # NoCursor /\ resultCount = 0) =>
        /\ hits = << >>
        /\ wordsRead = {}
        /\ phase \in {"decode", "decoded", "picked"}
        /\ visitor = NoVisitor /\ vlog = << >>
        /\ phase = "picked" =>
            /\ ~picked.pending
            /\ picked.object = NULL
            /\ ~AnyIsSet(picked.payload)

\* C17 witness: getTopMostPayload has answered for a count of 0, the buffer still
\* holding what an earlier pass wrote
ZeroHitsWitness ==
    /\ resultCount = 0 /\ phase = "picked" /\ picked.by = "getTopMostPayload"
    /\ Len(buffer.entries) = 2

\* C18 (hit depth invariant): every hit record made by the decoder has
\* depthMin <= depthMax.
HitDepthInvariant ==
    cursor # NoCursor => \A k \in 1..Len(hits) : hits[k].zMin <= hits[k].zMax

\* C18 witness: a hit whose raw depths differ and whose depths are equal, and a hit
\* whose depths differ
HitDepthInvariantWitness ==
    /\ Decoded /\ CountsEntries
    /\ \E k \in 1..Len(hits) :
        /\ hits[k].zMin = hits[k].zMax
        /\ buffer.entries[hits[k].entry].depths[1] < buffer.entries[hits[k].entry].depths[2]
    /\ \E k \in 1..Len(hits) : hits[k].zMin < hits[k].zMax

\* a hit list written back in the layout of the buffer (a depth d stands for d * 2^-32,
\* so its raw value is d)
RECURSIVE HitsWords(_)
HitsWords(h) ==
    IF h = << >> THEN <<0, 0, 0>>
    ELSE <<Len(Head(h).nameHierarchy), Head(h).zMin, Head(h).zMax>>
            \o Head(h).nameHierarchy \o HitsWords(Tail(h))

\* C19 (decode idempotence): a decoded hit list, written back in buffer layout and
\* decoded again, comes out as the same hits in the same order.
DecodeIdempotent ==
    (Decoded /\ CountsEntries) =>
        \A again \in analyzeSelectionBuffer(Len(hits), HitsWords(hits)) :
            /\ Len(again) = Len(hits)
            /\ \A k \in 1..Len(hits) : Content(again[k]) = Content(hits[k])

\* the tree is a selectable composite whose components are selectable leaves
TwoLevelTree ==
    /\ nodes[1].type = "SelectableCompositeRenderable"
    /\ \A n \in NodeIds \ {1} : IsLeaf(n) /\ IsSelectable(n) /\ Parent(n) = 1

\* a typed resolver was started with a path of two names, the first the root's
TwoLevelPath ==
    /\ phase \in {"visit", "done", "crashed"}
    /\ visitor.kind = "TypedSelectionVisitor"
    /\ Len(visitor.desiredName) = 2
    /\ visitor.desiredName[1] = getName(1)

\* the children of the root that carry the name c
ChildrenNamed(c) == {n \in NodeIds \ {1} : getName(n) = c}

\* C20 (two-level pick): on a selectable composite named a with selectable leaf
\* children of distinct names, TypedSelectionVisitor<T> with path [a,b], b the name of
\* a child whose payload was set with type T, ends found with that payload's referent
\* as selected object; with path [a,c], c the name of no child, it ends not found with
\* a null selected object. Either traversal runs to its end and reads the path in
\* bounds.
TwoLevelPick ==
    (TwoLevelTree /\ UniqueSiblingNames /\ TwoLevelPath) =>
        LET target == ChildrenNamed(visitor.desiredName[2])
        IN  /\ \A n \in target :
                nodes[n].payload.type = visitor.TDesired =>
                    /\ phase # "crashed" /\ InBounds
                    /\ phase = "done" =>
                        (visitor.found /\ visitor.selectedObject = nodes[n].payload.data)
            /\ target = {} =>
                    /\ phase # "crashed" /\ InBounds
                    /\ phase = "done" =>
                        (~visitor.found /\ visitor.selectedObject = NULL)

\* C20 witness: the second of two leaves, a breach, is picked by [a,b] after the
\* first, a wall of another name, was passed
TwoLevelPickWitness ==
    /\ TwoLevelTree /\ UniqueSiblingNames /\ TwoLevelPath /\ phase = "done"
    /\ Len(nodes) = 3
    /\ nodes[2].type = "WallRenderer" /\ nodes[3].type = "BreachRenderer"
    /\ visitor.desiredName[2] = getName(3)
    /\ visitor.TDesired = "Breach"
    /\ visitor.found /\ visitor.selectedObject = nodes[3].payload.data
    /\ Len(reads) = 3

\* C25 (clear): a freshly constructed box is unset; after clear() the box is unset and
\* get<T>() is null for every T, whatever it held, and a second clear() leaves it so.
ClearEmpties ==
    phase = "any" =>
        /\ lastOp.op \in {"none", "clear"} =>
            /\ ~AnyIsSet(any)
            /\ \A T \in ValueTypes : AnyGet(any, T) = NULL
            /\ AnyClear(any) = any
        /\ (got.q \in {"get", "isSet"} /\ got.after.op \in {"none", "clear"}) =>
            /\ got.result = NULL
            /\ ~got.isSet
        /\ ~AnyIsSet(AnyClear(any))
        /\ AnyClear(AnyClear(any)) = AnyClear(any)

\* C25 witness: a box that held a copy's source value is cleared and then asked for
\* the type it held
ClearEmptiesWitness ==
    /\ lastOp.op = "clear"
    /\ any2.made /\ any2.of.op = "set" /\ any2.of.type = "DerivA"
    /\ got.q = "get" /\ got.type = "DerivA" /\ got.after.op = "clear"

\* C26 (copy): a box copy-constructed from a box holding a reference to v stored with
\* type T is set, its get<T>() is the address of v and its get<U>() null for every
\* other U; the copy of an empty box is empty; the source answers as before.
CopySemantics ==
    phase = "any" =>
        LET held(op) == op.op \in {"set", "assign"}
        IN  /\ got.q = "copy.get" =>
                got.result = (IF held(got.after) /\ got.type = got.after.type
                              THEN got.after.data ELSE NULL)
            /\ got.q = "copy.isSet" => (got.isSet <=> held(got.after))
            /\ (any2.made /\ any2.of = lastOp) =>
                /\ AnyIsSet(any) <=> held(lastOp)
                /\ \A U \in ValueTypes :
                    AnyGet(any, U) = (IF held(lastOp) /\ U = lastOp.type THEN lastOp.data ELSE NULL)

\* C26 witness: the copy of a box holding a DerivB as BaseB gives its address for BaseB,
\* the source having been cleared since
CopySemanticsWitness ==
    /\ got.q = "copy.get" /\ got.type = "BaseB" /\ got.result = 4
    /\ got.after.type = "BaseB"
    /\ lastOp.op = "clear"

\* the hooks and returns of a traversal of the subtree of n in which every hook
\* answers true: depth-first, components in insertion order
RECURSIVE DepthFirst(_), DepthFirstFrom(_, _)
DepthFirst(n) ==
    IF IsComposite(n)
    THEN <<Called("visitEnter", n, TRUE)>> \o DepthFirstFrom(n, 1)
            \o <<Called("visitLeave", n, TRUE), Called("accept", n, TRUE)>>
    ELSE <<Called("visitLeaf", n, TRUE), Called("accept", n, TRUE)>>
DepthFirstFrom(n, i) ==
    IF i > Len(nodes[n].components) THEN << >>
    ELSE DepthFirst(nodes[n].components[i]) \o DepthFirstFrom(n, i + 1)

\* C22 (default visitor visits everything): the hooks of HierarchicalVisitor answer
\* false for null and true otherwise; accept on any tree returns true after visitEnter
\* once on every composite, visitLeaf once on every leaf and visitLeave once on every
\* composite, depth-first in insertion order, enter before and leave after the hooks
\* of the descendants.
DefaultVisitsAll ==
    /\ \A h \in Hooks : Hook(HierarchicalVisitor, h, NULL) = {Outcome(HierarchicalVisitor, FALSE)}
    /\ (visitor = HierarchicalVisitor /\ phase \in {"visit", "done"}) =>
        /\ IsPrefix(vlog, DepthFirst(1))
        /\ phase = "done" => (vlog = DepthFirst(1) /\ ctl = [op |-> "ret", val |-> TRUE])

\* C22 witness: a composite holding a leaf and then a composite has been visited
DefaultVisitsAllWitness ==
    /\ visitor = HierarchicalVisitor /\ phase = "done"
    /\ nodes[1].components = <<2, 3>>
    /\ IsLeaf(2) /\ IsComposite(3)
    /\ Len(vlog) = 8

\* C23 (downcast failure is contained): a registration whose type the visited node
\* cannot be cast to is skipped and the next one tried; no bad_cast leaves visitEnter,
\* visitLeaf or visitLeave, which return a boolean for every set of registrations and
\* every node.
DowncastContained ==
    (phase = "dispatch" /\ ctl.op = "visited") =>
        LET order == visitor.order[ctl.hook]
        IN  /\ ~ctl.thrown
            /\ ctl.result \in BOOLEAN
            /\ (ctl.node # NULL /\ ctl.by = "ordered") =>
                /\ \A k \in 1..(ctl.callback - 1) : BadCast(order[k], ctl.node)
                /\ ~BadCast(order[ctl.callback], ctl.node)
            /\ (ctl.node # NULL /\ ctl.by \in {"fallback", "default"}) =>
                \A k \in 1..Len(order) : BadCast(order[k], ctl.node)

\* C23 witness: two registrations, both for classes the node is not of, were tried and
\* the fallback answered
DowncastContainedWitness ==
    /\ phase = "dispatch" /\ ctl.op = "visited" /\ ctl.node # NULL
    /\ ctl.by = "fallback"
    /\ Len(visitor.order[ctl.hook]) = 2
    /\ visitor.order[ctl.hook][1] # visitor.order[ctl.hook][2]
    /\ ctl.result \in BOOLEAN

\* what a typed resolver reports: the selected object when found, else null
Reported(v) == IF v.found THEN v.selectedObject ELSE NULL

\* C24 (top-most pick): getTopMostTypedPayload<T> returns null without visiting the
\* scene when the hit list is empty; otherwise it returns what a
\* TypedSelectionVisitor<T> built from the name path of hits[0], the hit of least
\* depthMin, finds in the scene, null when it finds nothing; no other hit has a part
\* in the result.
TopMostPick ==
    (cursor # NoCursor /\ phase = "picked" /\ picked.by = "getTopMostTypedPayload") =>
        IF hits = << >>
        THEN picked.object = NULL /\ visitor = NoVisitor /\ vlog = << >>
        ELSE /\ visitor.kind = "TypedSelectionVisitor"
             /\ visitor.desiredName = hits[1].nameHierarchy
             /\ \A k \in 1..Len(hits) : hits[1].zMin <= hits[k].zMin
             /\ picked.object = Reported(visitor)
             /\ \E o \in visitSelectableLeaf(
                            TypedSelectionVisitor(visitor.TDesired, hits[1].nameHierarchy), 1) :
                    ~o.crash /\ picked.object = Reported(o.vis)

\* C24 witness: the nearest hit, second in the buffer, names the wall, the other hit
\* names nothing of the scene; the wall is returned
TopMostPickWitness ==
    /\ phase = "picked" /\ picked.by = "getTopMostTypedPayload"
    /\ Len(hits) = 2 /\ hits[1].entry = 2
    /\ hits[1].nameHierarchy = <<1>> /\ hits[2].nameHierarchy = <<2, 1>>
    /\ hits[1].zMin < hits[2].zMin
    /\ picked.object = nodes[1].payload.data

\* C27 (bracket nesting): in a full pass the configure and loadTransform of a
\* composite come before every phase of every descendant, its unloadTransform and
\* deconfigure after all of them, and the phases of two nodes neither of which is
\* below the other do not interleave.
BracketNesting ==
    phase \in {"render", "done"} =>
        LET above == [n \in NodeIds |-> {PathTo(n)[k] : k \in 1..Len(PathTo(n))} \ {n}]
            at    == [n \in NodeIds |-> {i \in 1..Len(rlog) : rlog[i].node = n}]
        IN  \A a, b \in NodeIds :
                /\ (IsComposite(a) /\ a \in above[b]) =>
                    \A i \in at[a], j \in at[b] :
                        /\ rlog[i].phase \in {"configure", "loadTransform", "render"} => i < j
                        /\ rlog[i].phase \in {"unloadTransform", "deconfigure"} => j < i
                /\ (a # b /\ a \notin above[b] /\ b \notin above[a]) =>
                    \/ \A i \in at[a], j \in at[b] : i < j
                    \/ \A i \in at[a], j \in at[b] : j < i

\* C27 witness: a pass over a composite in a composite, with a leaf after the inner
\* one, has ended
BracketNestingWitness ==
    /\ phase = "done" /\ Len(rlog) = 15
    /\ nodes[1].components = <<2, 3>>
    /\ IsComposite(2) /\ IsLeaf(3)
    /\ rlog[7].phase = "unloadTransform" /\ rlog[7].node = 2

\* the Texturer nearest above node n among its ancestors (0 when there is none)
NearestTexturer(n) ==
    LET path == PathTo(n)
        ks == {k \in 1..(Len(path) - 1) : IsTexturer(path[k])}
    IN  IF ks = {} THEN 0 ELSE path[CHOOSE k \in ks : \A l \in ks : l <= k]

\* C30 (group texturing): in a pass that is not a selection pass, whatever is drawn
\* below a Texturer composite is drawn with the texture of the nearest Texturer
\* above it bound and 2D texturing enabled, also after a sibling that is a Texturer.
GroupTexturing ==
    (phase \in {"render", "done"} /\ renderingMode # "GL_SELECT") =>
        \A i \in 1..Len(drawn) :
            LET t == NearestTexturer(drawn[i].node)
            IN  (t # 0 /\ nodes[t].texture # NO_TEXTURE) =>
                    drawn[i].texture = [bound |-> nodes[t].texture, enabled |-> TRUE]

\* accept is about to invoke visitEnter or visitLeaf of a selection visitor on a
\* selectable node
AtSelectableHook ==
    /\ phase = "visit" /\ ctl.op = "call"
    /\ IsSelectionVisitor(visitor)
    /\ IsSelectable(ctl.node)

\* C29 (resolver depth tracking): whenever a selectable hook of a TypedSelectionVisitor
\* or SelectionVisitor is invoked, currentLevel is the number of selectable ancestors
\* of the visited node (stated for the trees with unique sibling names and the
\* traversals whose reads of the path were all in bounds).
DepthTracking ==
    (AtSelectableHook /\ InBounds /\ UniqueSiblingNames) =>
        visitor.currentLevel = Len(NamePath(ctl.node)) - 1

\* the positions of the log at which hook h was invoked on node n
HookAt(h, n) == {i \in 1..Len(vlog) : vlog[i].hook = h /\ vlog[i].node = n}

\* C21 (stop once found): once found is true in a TypedSelectionVisitor traversal no
\* visitEnter or visitLeaf hook is invoked on a further node, whatever composites lie
\* between the found node and the root (stated for the traversals whose reads of the
\* path are all in bounds, in which found is set once, by a hook on selectedNode).
StopOnceFound ==
    (phase \in {"visit", "done"} /\ visitor.kind = "TypedSelectionVisitor"
        /\ visitor.found /\ InBounds) =>
        \A i \in HookAt("visitEnter", visitor.selectedNode)
                    \cup HookAt("visitLeaf", visitor.selectedNode) :
            \A j \in (i + 1)..Len(vlog) : vlog[j].hook \notin {"visitEnter", "visitLeaf"}

\* accept is about to invoke visitEnter of a TypedSelectionVisitor on a selectable
\* composite, the path having an element at the current level
AtSelectableEnter ==
    /\ phase = "visit" /\ ctl.op = "call"
    /\ visitor.kind = "TypedSelectionVisitor"
    /\ IsComposite(ctl.node) /\ IsSelectable(ctl.node)
    /\ visitor.currentLevel < Len(visitor.desiredName)

\* the name of the node matches the path at the current level / that level is the last
EnterMatches == getName(ctl.node) = visitor.desiredName[visitor.currentLevel + 1]
EnterAtLast  == visitor.currentLevel + 1 = Len(visitor.desiredName)

\* what visitEnter answers on the selectable composite, and what accept does with it
PruningStep ==
    AtSelectableEnter =>
        /\ (~EnterMatches \/ EnterAtLast) =>
            /\ vlog' = vlog \o <<Called("visitEnter", ctl.node, FALSE),
                                  Called("accept", ctl.node, FALSE)>>
            /\ vstack' = vstack
            /\ ctl' = [op |-> "ret", val |-> FALSE]
        /\ (EnterMatches /\ ~EnterAtLast /\ ~visitor.found) =>
            /\ vlog' = Append(vlog, Called("visitEnter", ctl.node, TRUE))
            /\ vstack' = Append(vstack, [node |-> ctl.node, it |-> 1])

\* a selectable composite whose visitEnter answered false has no hook invoked below
\* it and no visitLeave; one whose visitEnter answered true has its components
\* visited, from the first on
PrunedBranches ==
    (phase \in {"visit", "done"} /\ visitor.kind = "TypedSelectionVisitor") =>
        \A i \in 1..Len(vlog) :
            LET n == vlog[i].node
            IN  (vlog[i].hook = "visitEnter" /\ IsSelectable(n)) =>
                    IF vlog[i].result
                    THEN (phase = "done" /\ nodes[n].components # << >>) =>
                            \E j \in (i + 1)..Len(vlog) : vlog[j].node = nodes[n].components[1]
                    ELSE /\ HookAt("visitLeave", n) = {}
                         /\ \A j \in 1..Len(vlog) : ~IsBelow(vlog[j].node, n)

\* C28 (resolver pruning): in a TypedSelectionVisitor traversal the visitEnter of a
\* selectable composite whose name differs from the path element at the current level,
\* or matches the last element, returns false, none of its descendants is visited and
\* its visitLeave is not called; when the name matches an element that is not the last
\* and nothing was found, visitEnter returns true and its components are visited.
ResolverPruning == []PrunedBranches /\ [][PruningStep]_vars

\* C28 witness: a selectable group that does not match was left aside with its
\* component, after a group that matched the first of two names was entered
ResolverPruningWitness ==
    /\ phase = "done" /\ visitor.kind = "TypedSelectionVisitor"
    /\ Len(visitor.desiredName) = 2
    /\ Len(nodes) = 3 /\ IsSelectable(1) /\ IsComposite(2) /\ IsSelectable(2)
    /\ nodes[1].components = <<2>> /\ nodes[2].components = <<3>>
    /\ vlog = <<Called("visitEnter", 1, TRUE), Called("visitEnter", 2, FALSE),
                Called("accept", 2, FALSE), Called("visitLeave", 1, TRUE),
                Called("accept", 1, TRUE)>>
    /\ getName(2) # visitor.desiredName[2]

\* the step is phase ph of fullRender on node n
PhaseStep(ph, n) ==
    /\ Len(rlog') = Len(rlog) + 1
    /\ rlog'[Len(rlog')].phase = ph
    /\ rlog'[Len(rlog')].node = n

\* loadTransform of a matrix transformer pushes one matrix on the stack of its mode,
\* unloadTransform pops one from that stack; neither touches another stack
MatrixStep ==
    \A n \in NodeIds : IsMatrixTransformer(n) =>
        LET md     == nodes[n].matrixMode
            before == glMatrix.stacks
            after  == glMatrix'.stacks
        IN  /\ PhaseStep("loadTransform", n) =>
                /\ Len(after[md]) = Len(before[md]) + 1
                /\ SubSeq(after[md], 1, Len(before[md])) = before[md]
                /\ \A o \in MatrixModes \ {md} : after[o] = before[o]
            /\ PhaseStep("unloadTransform", n) =>
                /\ Len(before[md]) = Len(after[md]) + 1
                /\ SubSeq(before[md], 1, Len(after[md])) = after[md]
                /\ \A o \in MatrixModes \ {md} : after[o] = before[o]

\* once fullRender has returned, every matrix stack is as it was at the call
MatrixRestored == phase = "done" => glMatrix.stacks = NoMatrices.stacks

\* C31: in any tree containing matrix transformers and in any rendering mode,
\* loadTransform pushes exactly one matrix on the stack of the node's matrix mode and
\* unloadTransform pops exactly one from that stack; after fullRender of the tree every
\* matrix stack has the depth and the top matrix it had before.
MatrixStackBalance == []MatrixRestored /\ [][MatrixStep]_vars

\* a pass has returned over a transformer nested in a transformer of another mode
MatrixStackBalanceWitness ==
    /\ phase = "done"
    /\ \E a, b \in NodeIds :
        /\ IsMatrixTransformer(a) /\ IsMatrixTransformer(b)
        /\ Parent(b) = a
        /\ nodes[a].matrixMode # nodes[b].matrixMode
        /\ \E i \in 1..Len(rlog) : rlog[i] = Event("unloadTransform", a, renderingMode)

\* the step is a phase of fullRender on a target renderer whose target is hit
HitTargetStep ==
    \E n \in NodeIds :
        /\ nodes[n].type = "TargetRenderer" /\ nodes[n].hit
        /\ \E ph \in {"configure", "render", "deconfigure"} : PhaseStep(ph, n)

\* no primitive of a hit target was submitted in the pass, under any name stack
NoHitTargetDrawn ==
    phase \in {"render", "done"} =>
        \A i \in 1..Len(drawn) :
            LET n == drawn[i].node
            IN  nodes[n].type = "TargetRenderer" => ~nodes[n].hit

\* C32: once a target is hit, in every later pass and in every rendering mode its
\* renderer does nothing in configure, render and deconfigure: no name pushed or popped,
\* no primitive submitted; so a hit target is in no later hit-test result and the name
\* stack is balanced in passes where some targets are hit.
HitTargetsInert ==
    /\ [](NoHitTargetDrawn /\ (phase = "done" => nameStack = entryStack))
    /\ [][HitTargetStep => /\ nameStack' = nameStack
                           /\ drawn' = drawn
                           /\ glTexture' = glTexture
                           /\ glMatrix' = glMatrix]_vars

\* a selection pass has returned over a hit target and a target that is not hit
HitTargetsInertWitness ==
    /\ phase = "done" /\ renderingMode = "GL_SELECT"
    /\ \E a, b \in NodeIds :
        /\ nodes[a].type = "TargetRenderer" /\ nodes[a].hit
        /\ nodes[b].type = "TargetRenderer" /\ ~nodes[b].hit
        /\ \E i \in 1..Len(rlog) : rlog[i] = Event("deconfigure", a, "GL_SELECT")
        /\ \E i \in 1..Len(drawn) : drawn[i].node = b

\* SelectionVisitor::getSelectedObject: the member, returned by value
getSelectedObject(v) == AnyCopy(v.selectedObject)

\* C33: after a SelectionVisitor traversal whose target path is matched by a node
\* holding a set payload stored with type T that refers to value v, getSelectedObject()
\* is a set box whose get<T>() returns &v: same type tag and referent as the payload.
\* Stated for the traversals that took the payload of a node whose name path is the
\* target, all reads of the path in bounds, in trees with unique sibling names.
UntypedPickResult ==
    \A n \in NodeIds :
        (/\ phase = "done" /\ visitor.kind = "SelectionVisitor"
         /\ InBounds /\ UniqueSiblingNames
         /\ visitor.found /\ visitor.selectedNode = n
         /\ NamePath(n) = visitor.desiredName
         /\ AnyIsSet(nodes[n].payload))
        => LET box == getSelectedObject(visitor)
               T   == nodes[n].payload.type
           IN  /\ AnyIsSet(box)
               /\ box.type = T
               /\ AnyGet(box, T) = nodes[n].payload.data

\* C34: decoding with a negative result count (what the end-of-selection call reports
\* when the selection buffer overflowed) completes normally with an empty hit list
\* and reads no word of the buffer.
OverflowedSelection ==
    (resultCount < 0 /\ cursor # NoCursor) =>
        /\ phase \in {"decode", "decoded", "visit", "done", "picked"}
        /\ hits = << >>
        /\ wordsRead = {}

\* the positions at which getBreachAt answers non-null
Occupied(c) == {p \in 0..(Len(c.breaches) - 1) : getBreachAt(c, p) # NULL}

\* C35: after any sequence of addBreach and removeBreach calls, getBreachCount() is the
\* number of positions p with getBreachAt(p) non-null; removeBreach and getBreachAt on a
\* position beyond the stored range return null and change nothing, and removing an
\* already empty position does not change the count.
CrosshairCount ==
    /\ phase # "crashed"
    /\ getBreachCount(crosshair) = Cardinality(Occupied(crosshair))
    /\ lastCall.op \in {"removeBreach", "getBreachAt"} =>
        /\ PositionBeyond(lastCall.position, Len(lastCall.before.breaches)) =>
            (lastCall.result = NULL /\ crosshair = lastCall.before)
        /\ (lastCall.op = "removeBreach" /\ getBreachAt(lastCall.before, lastCall.position) = NULL) =>
            getBreachCount(crosshair) = getBreachCount(lastCall.before)

\* "at least": the float comparison dist >= minDist
AtLeast(dist, least) == dist # NaN /\ dist >= least

\* every two opened breaches of one wall are apart
Separated(bs) ==
    \A i, j \in 1..Len(bs) :
        (i # j /\ bs[i].opened /\ bs[j].opened /\ bs[i].wall = bs[j].wall)
            => AtLeast(Dist(bs[i].wall, bs[i].shotPoint, bs[j].shotPoint), MinDist)

\* C36: after any sequence of shootBreach calls, any two distinct opened breaches of the
\* same wall have a squared in-plane distance between their adjusted shot points (each
\* coordinate difference scaled by the wall axis norm) of at least minDist; a shot that
\* would violate this, or whose index is not below breaches.size(), returns false and
\* leaves every breach unchanged.
BreachSeparation ==
    /\ Separated(breaches)
    /\ lastShot.op = "shootBreach" =>
        LET before == lastShot.before
            shot   == [opened |-> TRUE, wall |-> lastShot.wall,
                       shotPoint |-> getAdjustedShotPoint(lastShot.wall, lastShot.shotPoint)]
        IN  (\/ lastShot.index >= Len(before)
             \/ ~Separated([before EXCEPT ![lastShot.index + 1] = shot]))
            => (~lastShot.result /\ breaches = before)

\* 1 when the key is held, else 0
Held(key) == IF key \in keysHeld THEN 1 ELSE 0

\* the positive and the negative key of each axis (element i + 1 for axis i)
PositiveKey == <<"z", "d", "a">>
NegativeKey == <<"s", "q", "e">>

\* C37: with presses and releases alternating for each key, after any sequence of
\* keyboard and keyboardUp events playerAdvance[axis] is (1 if the positive key of the
\* axis is held, else 0) minus (1 if its negative key is held, else 0), the keys being
\* z/s, d/q and a/e; so each component is within [-1, 1] and 0 when neither is held.
MovementKeys ==
    \A i \in 1..3 :
        /\ playerAdvance[i] = Held(PositiveKey[i]) - Held(NegativeKey[i])
        /\ playerAdvance[i] \in -1..1
        /\ (PositiveKey[i] \notin keysHeld /\ NegativeKey[i] \notin keysHeld) => playerAdvance[i] = 0

\* both keys of axis 0 were pressed and the positive one released, the negative key
\* of axis 1 is held
MovementKeysWitness ==
    /\ keysHeld = {"s", "q"}
    /\ playerAdvance = <<-1, -1, 0>>

\* the names of the hit records of the last click that have the smallest minimum depth
NearestNames ==
    LET recs == 0..(click.hits - 1)
    IN  {Word(click.buffer, r * 4 + 3) : r \in
            {r \in recs : \A q \in recs :
                Word(click.buffer, r * 4 + 1) <= Word(click.buffer, q * 4 + 1)}}

\* C38: doSelection marks as hit exactly the target whose name (index + 1) is carried
\* by the hit record with the smallest minimum depth; with no hits, or when that record
\* is a wall's (name 0), it modifies no target and writes to no index outside
\* [0, target_count).
ClickAffectsOnlyTargets ==
    click.op = "doSelection" =>
        /\ click.written \subseteq 0..(target_count - 1)
        /\ IF click.hits > 0 /\ 0 \notin NearestNames
           THEN \E name \in NearestNames :
                    /\ click.written = {name - 1}
                    /\ targets = [click.before EXCEPT ![name] = TRUE]
           ELSE targets = click.before
====
